---- MODULE Spec2Model ----
(***************************************************************************)
(* Verification model of the provisioning orchestrator of                  *)
(* AWS-Pullomi-Organization-Configuration.                                 *)
(*                                                                         *)
(*   SpecRetry      RetryWithBackoff (organization.go:236-253 and its two  *)
(*                  verbatim copies in landing_zone.go and accounts.go)    *)
(*   SpecStages     the concurrent SetupLandingZone (landing_zone.go)      *)
(*   SpecHierarchy  createOUHierarchy and the additional-OU loop of        *)
(*                  NewOrganization (organization.go:335-402)              *)
(*   SpecStore      the StateManager: Save, Load, CreateBackup and         *)
(*                  CleanupOldStates (unnamed/part_006)                    *)
(*   SpecCollector  StateManager.Close and the metrics Collector           *)
(*                  (metrics/collector.go)                                 *)
(*   SpecOrchestrator  the provisioning run of main (main.go) with the     *)
(*                  retry loops and rate limiters of the components, and   *)
(*                  Organization.Cleanup                                   *)
(*   SpecAccounts   AccountManager.Backup and Restore (unnamed/part_001)   *)
(*                                                                         *)
(* Each specification moves its own group of variables and leaves the      *)
(* other groups at rest.                                                   *)
(***************************************************************************)
EXTENDS Integers, Sequences, FiniteSets, TLC

(***************************************************************************)
(* Bounds of the model.                                                    *)
(***************************************************************************)
MaxAttemptsBound == 4    \* largest RetryConfig.MaxAttempts that is drawn
MaxBaseDelay == 16       \* largest RetryConfig.Delay that is drawn, seconds
MaxNodes == 3            \* largest number of OUConfig nodes of a configuration
NumNames == 4            \* number of OU names the configurations draw from
TicksPerSecond == 4      \* ticks of the model clock in a second
MaxCalls == 2            \* largest number of calls made to the StateManager
MaxCloses == 2           \* largest number of calls of StateManager.Close
MaxAccountCalls == 2     \* largest number of calls of Backup and Restore
MaxHooks == 3            \* largest number of functions in o.cleanup

(***************************************************************************)
(* Program constants.                                                      *)
(***************************************************************************)
maxDelay == 30           \* organization.go:68, seconds
StateExpiryDays == 30    \* config/types.go:29
BackupRetentionDays == 90 \* config/types.go:30
MaxRetries == 3          \* config/types.go:32
InitialBackoff == 1      \* config/types.go:33, seconds
ConfigVersion == "1.0.0" \* config/types.go:77
BackupFilePrefix == "backup" \* config/types.go:27
mainMaxAttempts == 3     \* main.go:147 and 175
maxRetryAttempts == 3    \* organization.go:66, accounts.go:49
MaxRetryAttempts == 3    \* landing_zone.go:416

VARIABLES
    \* ---- RetryWithBackoff ----
    config,      \* RetryConfig: [MaxAttempts, Delay]
    attempt,     \* loop variable of RetryWithBackoff
    lastErr,     \* local lastErr ("nil" or the error of the last failed call)
    opLog,       \* results of the invocations of operation(), in order
    sleeps,      \* arguments of the time.Sleep calls, in order
    retryPc,     \* "loop" while the for loop runs, "returned" afterwards
    retryErr,    \* the value RetryWithBackoff returned
    \* ---- SetupLandingZone (concurrent version) ----
    cfg,         \* the *LandingZoneConfig argument: "nil", "noRegions", "valid"
    lzPc,        \* position of the calling goroutine in SetupLandingZone
    launched,    \* number of go statements executed so far
    stagePc,     \* position of each stage goroutine
    stageRes,    \* the value each stage function returned
    errChan,     \* contents of the buffered channel errChan
    wg,          \* counter of the sync.WaitGroup
    roles,       \* keys of lz.roles
    lzErr,       \* the value SetupLandingZone returned
    \* ---- createOUHierarchy and the additional-OU loop of NewOrganization ----
    organizationUnits, \* cfg.LandingZoneConfig.OrganizationUnits, a forest
    hPc,         \* position of NewOrganization: "loop", "abort", "done", "failed"
    topTodo,     \* top-level specs the range loop has not visited yet
    stack,       \* the active calls of createOUHierarchy, innermost last
    ret,         \* what the last call of createOUHierarchy returned
    additionalOUs, \* the map additionalOUs of NewOrganization
    calls,       \* the NewOrganizationalUnit calls received by the provider
    existing,    \* ids of the OUs that exist at the provider
    nextId,      \* number of the next id the provider assigns
    ssm,         \* names of the OUs whose SSM side-record was written
    run,         \* "first" or "second" execution of the program
    firstCalls,  \* the nodes created by the first execution, in call order
    \* ---- StateManager (unnamed/part_006) ----
    now,         \* the wall clock read by time.Now(), in ticks
    mutex,       \* sm.mutex, a sync.RWMutex: [writer, readers]
    table,       \* the items of the DynamoDB table under pk "state", by sk
    gor,       \* position and locals of each goroutine inside StateManager
    smCalls,     \* the calls of Save, Load, CreateBackup, CleanupOldStates
    putLog,      \* the PutItem calls of saveToDynamoDB, in order
    cleanupLog,  \* the calls of cleanupDynamoDB and cleanupS3, in order
    bg,          \* the goroutines started by the go statement of Save
    \* ---- metrics Collector of the StateManager ----
    collector,   \* the maps of the Collector, its registry, the default one
    closeRes,    \* what the calls of StateManager.Close returned, in order
    \* ---- the provisioning run ----
    orch,        \* position and locals of the function that was entered
    deadline,    \* the context main builds: "none", "pending", "expired"
    obs,         \* what the run did: phases, provider calls, limiters, result
    \* ---- AccountManager (unnamed/part_001) ----
    amHeap,      \* the map objects made so far, by reference
    amAccounts,  \* am.accounts, a reference into amHeap
    params,      \* the backup parameters of the SSM Parameter Store, by id
    amCalls,     \* the calls of Backup and Restore, in order
    amMutex      \* am.mutex: "unlocked", "writer" (Lock), "reader" (RLock)

retryVars == <<config, attempt, lastErr, opLog, sleeps, retryPc, retryErr>>
stageVars == <<cfg, lzPc, launched, stagePc, stageRes, errChan, wg, roles, lzErr>>

hierVars == <<organizationUnits, hPc, topTodo, stack, ret, additionalOUs,
              calls, existing, nextId, ssm, run, firstCalls>>

storeVars == <<now, mutex, table, gor, smCalls, putLog, cleanupLog,
               bg>>

collVars == <<collector, closeRes>>

orchVars == <<orch, deadline, obs>>

acctVars == <<amHeap, amAccounts, params, amCalls, amMutex>>

vars == <<retryVars, stageVars, hierVars, storeVars, collVars, orchVars,
          acctVars>>

(***************************************************************************)
(* RetryWithBackoff                                                        *)
(***************************************************************************)

\* Errors an operation can return; "nil" is Go's nil error.
OpErrors == {"errA", "errB"}
OpResults == {"nil"} \cup OpErrors

\* The nil error and fmt.Errorf("operation failed after %d attempts: %w",
\* config.MaxAttempts, lastErr).
NilError == [isNil |-> TRUE, attempts |-> 0, wraps |-> "nil"]
AttemptsError(n, e) == [isNil |-> FALSE, attempts |-> n, wraps |-> e]

BackoffDelay_Doubling(delay, k) ==
    IF delay * (2 ^ (k - 1)) > maxDelay THEN maxDelay ELSE delay * (2 ^ (k - 1))
\* delay := Delay * attempt; if delay > maxDelay { delay = maxDelay }
BackoffDelay(delay, k) ==
    IF delay * k > maxDelay THEN maxDelay ELSE delay * k

LoopCond_OffByOne == attempt < config.MaxAttempts
\* Loop condition of the for statement.
LoopCond == attempt <= config.MaxAttempts

RetryIteration_NoEarlyReturn(r) ==
    /\ retryPc = "loop"
    /\ LoopCond
    /\ opLog' = Append(opLog, r)
    /\ lastErr' = IF r = "nil" THEN lastErr ELSE r
    /\ sleeps' = IF r # "nil" /\ attempt < config.MaxAttempts
                 THEN Append(sleeps, BackoffDelay(config.Delay, attempt))
                 ELSE sleeps
    /\ attempt' = attempt + 1
    /\ UNCHANGED <<config, retryPc, retryErr>>
    /\ UNCHANGED <<stageVars, hierVars, storeVars, collVars, orchVars, acctVars>>

\* One iteration of the for loop: operation() is invoked and returns r.
RetryIteration(r) ==
    /\ retryPc = "loop"
    /\ LoopCond
    /\ opLog' = Append(opLog, r)
    /\ IF r = "nil"
       THEN /\ retryPc' = "returned"
            /\ retryErr' = NilError
            /\ UNCHANGED <<attempt, lastErr, sleeps>>
       ELSE /\ lastErr' = r
            /\ sleeps' = IF attempt < config.MaxAttempts
                         THEN Append(sleeps, BackoffDelay(config.Delay, attempt))
                         ELSE sleeps
            /\ attempt' = attempt + 1
            /\ UNCHANGED <<retryPc, retryErr>>
    /\ UNCHANGED config
    /\ UNCHANGED <<stageVars, hierVars, storeVars, collVars, orchVars, acctVars>>

\* The loop condition is false: the statement after the loop returns.
RetryExhausted ==
    /\ retryPc = "loop"
    /\ ~LoopCond
    /\ retryPc' = "returned"
    /\ retryErr' = AttemptsError(config.MaxAttempts, lastErr)
    /\ UNCHANGED <<config, attempt, lastErr, opLog, sleeps>>
    /\ UNCHANGED <<stageVars, hierVars, storeVars, collVars, orchVars, acctVars>>

RetryNext ==
    \/ \E r \in OpResults : RetryIteration(r)
    \/ RetryExhausted

(***************************************************************************)
(* SetupLandingZone, the version that runs the stages concurrently         *)
(* (landing_zone.go:466-521).                                              *)
(***************************************************************************)

\* The stage functions in the order of the go statements.
Stages == <<"setupRoles", "setupKMS", "setupLogging", "setupGuardrails">>
StageSet == {Stages[i] : i \in 1..Len(Stages)}

\* errChan := make(chan error, 4)
errChanCap == 4
\* wg.Add(4)
wgAdd == 4

RoleNameControlTowerAdmin == "AWSControlTowerAdmin"

\* Errors of SetupLandingZone: msg is the text of the error, wraps the stage
\* whose error it wraps ("nil" when it wraps none).
LzNil == [isNil |-> TRUE, msg |-> "", wraps |-> "nil"]
LzError(m, w) == [isNil |-> FALSE, msg |-> m, wraps |-> w]

\* lz.validateConfig(cfg)
ValidateConfig(c) ==
    IF c = "nil" THEN LzError("landing zone configuration cannot be nil", "nil")
    ELSE IF c = "noRegions"
         THEN LzError("at least one governed region must be specified", "nil")
         ELSE LzNil

\* setupRoles returns nil or the error of createRoleWithRetry; an error of a
\* stage is named after the stage.
RolesResults == {"nil", "setupRoles"}

\* setupKMS, setupLogging and setupGuardrails are placeholders in the source
\* ("// KMS setup implementation"); their provider calls can fail like any
\* other (spec section 4.4, 6).
PlaceholderResults(s) == {"nil", s}

StageResults(s) ==
    IF s = "setupRoles" THEN RolesResults ELSE PlaceholderResults(s)

\* NewLandingZone, validateConfig, make(chan error, 4), wg.Add(4).
\* newOk is whether NewLandingZone could build its logger and collector.
SetupStart(newOk) ==
    /\ lzPc = "start"
    /\ IF ~newOk
       THEN /\ lzPc' = "returned"
            /\ lzErr' = LzError("failed to create landing zone", "nil")
            /\ UNCHANGED wg
       ELSE IF ~ValidateConfig(cfg).isNil
       THEN /\ lzPc' = "returned"
            /\ lzErr' = ValidateConfig(cfg)
            /\ UNCHANGED wg
       ELSE /\ lzPc' = "launch"
            /\ wg' = wgAdd
            /\ UNCHANGED lzErr
    /\ UNCHANGED <<cfg, launched, stagePc, stageRes, errChan, roles>>
    /\ UNCHANGED <<retryVars, hierVars, storeVars, collVars, orchVars, acctVars>>

\* The next go statement starts its goroutine.
GoStage ==
    /\ lzPc = "launch"
    /\ launched < Len(Stages)
    /\ launched' = launched + 1
    /\ stagePc' = [stagePc EXCEPT ![Stages[launched + 1]] = "running"]
    /\ lzPc' = IF launched + 1 = Len(Stages) THEN "wait" ELSE "launch"
    /\ UNCHANGED <<cfg, stageRes, errChan, wg, roles, lzErr>>
    /\ UNCHANGED <<retryVars, hierVars, storeVars, collVars, orchVars, acctVars>>

\* The stage function of goroutine s returns r; setupRoles has stored the
\* role it created in lz.roles when it returns nil.
StageReturn(s, r) ==
    /\ stagePc[s] = "running"
    /\ stagePc' = [stagePc EXCEPT ![s] = "returned"]
    /\ stageRes' = [stageRes EXCEPT ![s] = r]
    /\ roles' = IF s = "setupRoles" /\ r = "nil"
                THEN roles \cup {RoleNameControlTowerAdmin}
                ELSE roles
    /\ UNCHANGED <<cfg, lzPc, launched, errChan, wg, lzErr>>
    /\ UNCHANGED <<retryVars, hierVars, storeVars, collVars, orchVars, acctVars>>

StageSend_Twice(s) ==
    /\ stagePc[s] = "returned"
    /\ Len(errChan) < errChanCap
    /\ errChan' = errChan \o <<stageRes[s], stageRes[s]>>
    /\ stagePc' = [stagePc EXCEPT ![s] = "sent"]
    /\ UNCHANGED <<cfg, lzPc, launched, stageRes, wg, roles, lzErr>>
    /\ UNCHANGED <<retryVars, hierVars, storeVars, collVars, orchVars, acctVars>>

\* errChan <- result: blocks while the buffer is full.
StageSend(s) ==
    /\ stagePc[s] = "returned"
    /\ Len(errChan) < errChanCap
    /\ errChan' = Append(errChan, stageRes[s])
    /\ stagePc' = [stagePc EXCEPT ![s] = "sent"]
    /\ UNCHANGED <<cfg, lzPc, launched, stageRes, wg, roles, lzErr>>
    /\ UNCHANGED <<retryVars, hierVars, storeVars, collVars, orchVars, acctVars>>

\* The deferred wg.Done() of goroutine s.
StageDone(s) ==
    /\ stagePc[s] = "sent"
    /\ wg' = wg - 1
    /\ stagePc' = [stagePc EXCEPT ![s] = "done"]
    /\ UNCHANGED <<cfg, lzPc, launched, stageRes, errChan, roles, lzErr>>
    /\ UNCHANGED <<retryVars, hierVars, storeVars, collVars, orchVars, acctVars>>

WaitReturn_NoWait ==
    /\ lzPc = "wait"
    /\ lzPc' = "collect"
    /\ UNCHANGED <<cfg, launched, stagePc, stageRes, errChan, wg, roles, lzErr>>
    /\ UNCHANGED <<retryVars, hierVars, storeVars, collVars, orchVars, acctVars>>

\* wg.Wait() returns when the counter is zero; close(errChan).
WaitReturn ==
    /\ lzPc = "wait"
    /\ wg = 0
    /\ lzPc' = "collect"
    /\ UNCHANGED <<cfg, launched, stagePc, stageRes, errChan, wg, roles, lzErr>>
    /\ UNCHANGED <<retryVars, hierVars, storeVars, collVars, orchVars, acctVars>>

\* for err := range errChan { if err != nil { return ...%w } }: the error
\* wrapped is the first non-nil value of the channel.
FirstError(ch) ==
    IF \E i \in 1..Len(ch) : ch[i] # "nil"
    THEN ch[CHOOSE i \in 1..Len(ch) :
                /\ ch[i] # "nil"
                /\ \A j \in 1..(i - 1) : ch[j] = "nil"]
    ELSE "nil"

\* What is left of the channel once the range loop has received its first
\* non-nil value.
RECURSIVE DropNils(_)
DropNils(ch) ==
    IF ch = <<>> \/ Head(ch) # "nil" THEN ch ELSE DropNils(Tail(ch))

\* The range loop over the closed channel and the return that ends it.
Collect ==
    /\ lzPc = "collect"
    /\ lzPc' = "returned"
    /\ lzErr' = IF FirstError(errChan) = "nil"
                THEN LzNil
                ELSE LzError("landing zone setup failed", FirstError(errChan))
    /\ errChan' = IF FirstError(errChan) = "nil"
                  THEN <<>>
                  ELSE Tail(DropNils(errChan))
    /\ UNCHANGED <<cfg, launched, stagePc, stageRes, wg, roles>>
    /\ UNCHANGED <<retryVars, hierVars, storeVars, collVars, orchVars, acctVars>>

StageNext ==
    \/ \E newOk \in BOOLEAN : SetupStart(newOk)
    \/ GoStage
    \/ \E s \in StageSet : \E r \in StageResults(s) : StageReturn(s, r)
    \/ \E s \in StageSet : StageSend(s)
    \/ \E s \in StageSet : StageDone(s)
    \/ WaitReturn
    \/ Collect

(***************************************************************************)
(* createOUHierarchy and the loop of NewOrganization that builds the       *)
(* additional OUs (organization.go:293-402).  The older copy of            *)
(* createOUHierarchy in the package (unnamed/part_002:54-76) has the same  *)
(* control flow; its createOU lacks the check of the empty name.           *)
(***************************************************************************)

\* Names an OUConfig can carry; "" is the name createOU rejects.
OUNames == <<"Workloads", "Development", "Production", "", "Security", "Sandbox">>
Names == {OUNames[i] : i \in 1..NumNames}

\* org.Roots.Index(0).Id(): the id "r-0"; the provider's id "ou-k" is k.
RootId == 0
NoId == -1

\* The forests over n nodes.  parent[i] = 0 marks an entry of
\* OrganizationUnits, parent[i] = p that node i is an entry of the Children
\* map of node p.  The nodes are numbered breadth first, which names every
\* shape of forest once; a map holds its entries in no order.
Forests(n) ==
    {sp \in [n : {n}, parent : [1..n -> 0..(n - 1)], name : [1..n -> Names]] :
        /\ \A i \in 1..n : sp.parent[i] < i
        /\ \A i \in 1..(n - 1) : sp.parent[i] <= sp.parent[i + 1]}

\* The entries of ouConfig.Children (of OrganizationUnits for node 0).
Children(sp, i) == {j \in 1..sp.n : sp.parent[j] = i}

NilRet == [node |-> 0, err |-> "nil", ousNil |-> TRUE, ous |-> <<>>]

CreateOUErr_IgnoreSsm(name, out) ==
    IF name = "" THEN "OU name cannot be empty"
    ELSE IF out = "ouErr" THEN "error creating OU"
    ELSE "nil"

\* The error createOU returns when the provider answers out ("ok", "ouErr"
\* when NewOrganizationalUnit fails, "ssmErr" when ssm.NewParameter fails).
CreateOUErr(name, out) ==
    IF name = "" THEN "OU name cannot be empty"
    ELSE IF out = "ouErr" THEN "error creating OU"
    ELSE IF out = "ssmErr" THEN "error creating SSM parameter for OU"
    ELSE "nil"

\* What createOU does to the provider and to the parameter store.
CreateOU(node, parentId, out) ==
    LET name == organizationUnits.name[node] IN
    IF name = ""
    THEN UNCHANGED <<calls, existing, nextId, ssm>>
    ELSE /\ calls' = Append(calls, [node |-> node, name |-> name,
                                    parentId |-> parentId,
                                    out |-> out,
                                    id |-> IF out # "ouErr" THEN nextId ELSE NoId])
         /\ existing' = IF out # "ouErr" THEN existing \cup {nextId} ELSE existing
         /\ nextId' = IF out # "ouErr" THEN nextId + 1 ELSE nextId
         /\ ssm' = IF out = "ok" THEN ssm \cup {name} ELSE ssm

\* The parent id createOUHierarchy hands to the build of a child: ou.ID().
ChildParent_Grandparent(frame) == frame.parent
ChildParent(frame) == frame.ou

\* for k, v := range childOUs { ous[k] = v }
Merge_KeepOwn(ous, childOUs) == ous
Merge(ous, childOUs) == childOUs @@ ous

\* Entry of createOUHierarchy(parentId, node) up to the range loop: createOU,
\* then ous := {name: ou}.  base is the stack of the callers.
Enter(base, parentId, node, out) ==
    LET name == organizationUnits.name[node]
        err == CreateOUErr(name, out)
    IN  /\ CreateOU(node, parentId, out)
        /\ IF err = "nil"
           THEN /\ stack' = Append(base, [node |-> node, parent |-> parentId,
                                          ou |-> nextId,
                                          todo |-> Children(organizationUnits, node),
                                          ous |-> (name :> nextId)])
                /\ UNCHANGED <<hPc, ret>>
           ELSE /\ stack' = base
                /\ hPc' = "abort"
                /\ ret' = [node |-> node, err |-> err, ousNil |-> TRUE, ous |-> <<>>]

\* NewOrganization: the range loop over OrganizationUnits takes entry t.
LoopIterate(t, out) ==
    /\ hPc = "loop"
    /\ stack = <<>>
    /\ t \in topTodo
    /\ topTodo' = topTodo \ {t}
    /\ Enter(<<>>, RootId, t, out)
    /\ UNCHANGED <<organizationUnits, additionalOUs, run, firstCalls>>
    /\ UNCHANGED <<retryVars, stageVars, storeVars, collVars, orchVars, acctVars>>

\* createOUHierarchy: the range loop over ouConfig.Children takes entry c.
ChildIterate(c, out) ==
    /\ hPc = "loop"
    /\ stack # <<>>
    /\ LET top == stack[Len(stack)] IN
        /\ c \in top.todo
        /\ Enter([stack EXCEPT ![Len(stack)].todo = top.todo \ {c}],
                 ChildParent(top), c, out)
    /\ UNCHANGED <<organizationUnits, topTodo, additionalOUs, run, firstCalls>>
    /\ UNCHANGED <<retryVars, stageVars, storeVars, collVars, orchVars, acctVars>>

\* createOUHierarchy: the range loop is over, return ou, ous, nil; the caller
\* merges the returned map into its own.
HierarchyReturn ==
    /\ hPc = "loop"
    /\ stack # <<>>
    /\ LET top == stack[Len(stack)]
           rest == SubSeq(stack, 1, Len(stack) - 1)
       IN  /\ top.todo = {}
           /\ ret' = [node |-> top.node, err |-> "nil", ousNil |-> FALSE,
                      ous |-> top.ous]
           /\ IF rest = <<>>
              THEN /\ additionalOUs' = Merge(additionalOUs, top.ous)
                   /\ stack' = rest
              ELSE /\ stack' = [rest EXCEPT ![Len(rest)].ous =
                                    Merge(rest[Len(rest)].ous, top.ous)]
                   /\ UNCHANGED additionalOUs
    /\ UNCHANGED <<organizationUnits, hPc, topTodo, calls, existing, nextId,
                   ssm, run, firstCalls>>
    /\ UNCHANGED <<retryVars, stageVars, storeVars, collVars, orchVars, acctVars>>

HierarchyAbort_Resume ==
    /\ hPc = "abort"
    /\ stack # <<>>
    /\ hPc' = "loop"
    /\ UNCHANGED <<organizationUnits, topTodo, stack, ret, additionalOUs, calls,
                   existing, nextId, ssm, run, firstCalls>>
    /\ UNCHANGED <<retryVars, stageVars, storeVars, collVars, orchVars, acctVars>>

\* createOUHierarchy: the build of a child returned an error,
\* return nil, nil, err.
HierarchyAbort ==
    /\ hPc = "abort"
    /\ stack # <<>>
    /\ ret' = [node |-> stack[Len(stack)].node, err |-> ret.err,
               ousNil |-> TRUE, ous |-> <<>>]
    /\ stack' = SubSeq(stack, 1, Len(stack) - 1)
    /\ UNCHANGED <<organizationUnits, hPc, topTodo, additionalOUs, calls,
                   existing, nextId, ssm, run, firstCalls>>
    /\ UNCHANGED <<retryVars, stageVars, storeVars, collVars, orchVars, acctVars>>

\* NewOrganization: createOUHierarchy returned an error, return nil, err.
LoopFail ==
    /\ hPc = "abort"
    /\ stack = <<>>
    /\ hPc' = "failed"
    /\ UNCHANGED <<organizationUnits, topTodo, stack, ret, additionalOUs, calls,
                   existing, nextId, ssm, run, firstCalls>>
    /\ UNCHANGED <<retryVars, stageVars, storeVars, collVars, orchVars, acctVars>>

\* NewOrganization: the range loop over OrganizationUnits is over.
LoopDone ==
    /\ hPc = "loop"
    /\ stack = <<>>
    /\ topTodo = {}
    /\ hPc' = "done"
    /\ UNCHANGED <<organizationUnits, topTodo, stack, ret, additionalOUs, calls,
                   existing, nextId, ssm, run, firstCalls>>
    /\ UNCHANGED <<retryVars, stageVars, storeVars, collVars, orchVars, acctVars>>

\* The program is executed a second time with the same configuration
\* against a provider in its initial state.
SecondRun ==
    /\ hPc = "done"
    /\ run = "first"
    /\ run' = "second"
    /\ firstCalls' = [k \in 1..Len(calls) |-> calls[k].node]
    /\ hPc' = "loop"
    /\ topTodo' = Children(organizationUnits, 0)
    /\ stack' = <<>>
    /\ ret' = NilRet
    /\ additionalOUs' = <<>>
    /\ calls' = <<>>
    /\ existing' = {}
    /\ nextId' = 1
    /\ ssm' = {}
    /\ UNCHANGED organizationUnits
    /\ UNCHANGED <<retryVars, stageVars, storeVars, collVars, orchVars, acctVars>>

ProviderOutcomes == {"ok", "ouErr", "ssmErr"}

HierNext ==
    \/ \E t \in 1..MaxNodes : \E out \in ProviderOutcomes : LoopIterate(t, out)
    \/ \E c \in 1..MaxNodes : \E out \in ProviderOutcomes : ChildIterate(c, out)
    \/ HierarchyReturn
    \/ HierarchyAbort
    \/ LoopFail
    \/ LoopDone
    \/ SecondRun

(***************************************************************************)
(* StateManager (unnamed/part_006).  Goroutines of the process call Save,  *)
(* Load, CreateBackup and CleanupOldStates on one StateManager while the   *)
(* wall clock moves.  saveToDynamoDB is modelled from its code; the bodies *)
(* of loadFromDynamoDB, backupToS3, cleanupDynamoDB and cleanupS3 are the  *)
(* ones of the source, which touch no store and return nil.                *)
(***************************************************************************)

Goroutines == {"g1", "g2"}

\* Length of a day in ticks of the clock.
Day == 86400 * TicksPerSecond

\* The time that passes between two readings of the wall clock: one tick
\* (less than a second), the state expiry period, or that and one tick.
Jumps == {1, StateExpiryDays * Day, StateExpiryDays * Day + 1}

\* t.AddDate(0, 0, days)
AddDate(t, days) == t + days * Day

\* t.Format(time.RFC3339): the time to the second, the fraction is dropped.
FormatRFC3339(t) == t \div TicksPerSecond

\* Values of type error returned by the StateManager; a panic of the
\* goroutine is recorded the same way.
SmNil == [kind |-> "nil", Operation |-> "", Message |-> "", Err |-> "nil"]
Pending == [kind |-> "pending", Operation |-> "", Message |-> "", Err |-> "nil"]
StateError(op, msg, err) ==
    [kind |-> "StateError", Operation |-> op, Message |-> msg, Err |-> err]
NilDereference ==
    [kind |-> "panic", Operation |-> "",
     Message |-> "invalid memory address or nil pointer dereference",
     Err |-> "nil"]

\* *config.StateData: the nil pointer and the value Save builds at time t.
NoBackupID == [prefix |-> "", stamp |-> 0]
NilStateData ==
    [isNil |-> TRUE, Version |-> "", Timestamp |-> 0, State |-> "nil",
     BackupID |-> NoBackupID]
NewStateData(t) ==
    [isNil |-> FALSE, Version |-> ConfigVersion, Timestamp |-> t,
     State |-> "nil", BackupID |-> NoBackupID]

\* fmt.Sprintf("%s-%s", config.BackupFilePrefix, t.Format("20060102-150405"))
BackupId(t) == [prefix |-> BackupFilePrefix, stamp |-> t \div TicksPerSecond]

\* Arguments of Save: a value that encodes to a JSON object, one that
\* encodes to a JSON array and one json.Marshal rejects.
StateInputs == {"org", "list", "chan"}

\* marshalState: json.Marshal, then json.Unmarshal into a map.
marshalState(state) ==
    IF state = "chan"
    THEN [err |-> StateError("marshalState", "failed to marshal state",
                             "json: unsupported type"),
          State |-> "nil"]
    ELSE IF state = "list"
    THEN [err |-> StateError("marshalState", "failed to unmarshal state",
                             "json: cannot unmarshal array"),
          State |-> "nil"]
    ELSE [err |-> SmNil, State |-> state]

\* The item saveToDynamoDB builds and the effect of PutItem on the table:
\* the item replaces the one stored under the same sort key.
Item(stateData) ==
    [sk |-> FormatRFC3339(stateData.Timestamp),
     state |-> stateData,
     version |-> stateData.Version]
PutItem(tbl, item) == (item.sk :> item) @@ tbl

\* Results of the PutItem call of the write numbered a (from 0) of a Save:
\* nil or an error value of its own.
PutItemErrors == <<"errPut0", "errPut1", "errPut2", "errPut3">>
PutItemResults(a) == {"nil", PutItemErrors[a + 1]}

\* The stubs of the source.
loadFromDynamoDB == [data |-> NilStateData, err |-> "nil"]
backupToS3 == "nil"
cleanupDynamoDB(tbl, expiryDate) == [table |-> tbl, err |-> "nil"]
cleanupS3(expiryDate) == "nil"

\* The provider calls these functions stand for can fail (spec 4.6).
StubFailures == {"errStub"}

LoadResults ==
    {loadFromDynamoDB} \cup {[data |-> NilStateData, err |-> e] : e \in StubFailures}
BackupResults == {backupToS3} \cup StubFailures
CleanupDynamoDBResults(tbl, expiryDate) ==
    {cleanupDynamoDB(tbl, expiryDate).err} \cup StubFailures
CleanupS3Results(expiryDate) == {cleanupS3(expiryDate)} \cup StubFailures

\* sm.mutex, a sync.RWMutex.
Unlocked == [writer |-> "none", readers |-> {}]
CanLock_IgnoreReaders == mutex.writer = "none"
\* Lock() returns when no goroutine holds the mutex for writing or reading.
CanLock == mutex.writer = "none" /\ mutex.readers = {}
\* RLock() returns when no goroutine holds the mutex for writing.
CanRLock == mutex.writer = "none"

IdleFrame ==
    [pc |-> "idle", op |-> "", call |-> 0, stateData |-> NilStateData,
     attempt |-> 0, backoff |-> 0, timeNow |-> 0, expiryDate |-> 0]

NewCall(op, state) ==
    [op |-> op, input |-> state, res |-> Pending,
     data |-> NilStateData, backup |-> "none", sleeps |-> <<>>]

\* if attempt == config.MaxRetries-1
LastAttempt_OneLater(a) == a = MaxRetries
LastAttempt(a) == a = MaxRetries - 1

\* attempt < config.MaxRetries
RetryLoopCond(a) == a < MaxRetries

\* backoff *= 2
NextBackoff(b) == b * 2

\* The sleeps of the for loop of Save (lines 108-123; Load has the same
\* loop at 161-177) when its first `failures` attempts fail, as a function
\* of the two constants it reads: maxRetries stands for config.MaxRetries
\* and the first backoff for config.InitialBackoff.
RECURSIVE BackoffLoop(_, _, _, _)
BackoffLoop(a, backoff, failures, maxRetries) ==
    IF ~(a < maxRetries) \/ a >= failures \/ a = maxRetries - 1
    THEN <<>>
    ELSE <<backoff>> \o BackoffLoop(a + 1, NextBackoff(backoff), failures,
                                    maxRetries)

\* A call returns res (and data) while goroutine g holds the mutex as hold
\* ("writer", "reader" or "both"): the deferred unlocks run.  bk is what
\* backupToS3 answered to the call ("none" when it was not called).
ReturnWith(g, res, data, bk, hold) ==
    /\ smCalls' = [smCalls EXCEPT ![gor[g].call].res = res,
                                  ![gor[g].call].data = data,
                                  ![gor[g].call].backup = bk]
    /\ gor' = [gor EXCEPT ![g] =
                    [IdleFrame EXCEPT !.pc = IF res.kind = "panic"
                                             THEN "panicked" ELSE "idle"]]
    /\ mutex' = [writer |-> IF hold \in {"writer", "both"}
                            THEN "none" ELSE mutex.writer,
                 readers |-> IF hold \in {"reader", "both"}
                             THEN mutex.readers \ {g} ELSE mutex.readers]

Return(g, res, data, hold) == ReturnWith(g, res, data, "none", hold)

\* time.Now(): d ticks have passed since the clock was last read.
TimeNow(d) == now' = now + d

\* Save, lines 83-106: Lock, stateData with Timestamp time.Now(),
\* marshalState; an error of marshalState is returned at once.
Save_Lock(g, state, d) ==
    /\ gor[g].pc = "idle"
    /\ Len(smCalls) < MaxCalls
    /\ CanLock
    /\ TimeNow(d)
    /\ LET m == marshalState(state)
           c == Len(smCalls) + 1
       IN  IF m.err.kind # "nil"
           THEN /\ smCalls' = Append(smCalls,
                                [NewCall("Save", state) EXCEPT !.res = m.err])
                /\ UNCHANGED <<mutex, gor>>
           ELSE /\ smCalls' = Append(smCalls, NewCall("Save", state))
                /\ mutex' = [mutex EXCEPT !.writer = g]
                /\ gor' = [gor EXCEPT ![g] =
                     [IdleFrame EXCEPT
                        !.pc = "write", !.op = "Save", !.call = c,
                        !.stateData = [NewStateData(now') EXCEPT !.State = m.State],
                        !.backoff = InitialBackoff]]
    /\ UNCHANGED <<table, putLog, cleanupLog, bg>>
    /\ UNCHANGED <<retryVars, stageVars, hierVars, collVars, orchVars, acctVars>>

\* What follows the for loop of Save: the go statement and return nil.
SaveAfterLoop(g) ==
    /\ bg' = Append(bg, [call |-> gor[g].call,
                         stateData |-> gor[g].stateData, pc |-> "spawned",
                         res |-> "none"])
    /\ Return(g, SmNil, NilStateData, "writer")

Save_Write_BackupAlways(g, r) ==
    /\ gor[g].pc = "write"
    /\ putLog' = Append(putLog, [call |-> gor[g].call,
                                 item |-> Item(gor[g].stateData),
                                 attempt |-> gor[g].attempt, res |-> r])
    /\ table' = IF r = "nil" THEN PutItem(table, Item(gor[g].stateData))
                ELSE table
    /\ IF r = "nil"
       THEN SaveAfterLoop(g)
       ELSE IF LastAttempt(gor[g].attempt)
       THEN /\ bg' = Append(bg, [call |-> gor[g].call,
                                 stateData |-> gor[g].stateData,
                                 pc |-> "spawned", res |-> "none"])
            /\ Return(g, StateError("Save",
                          "max retries exceeded while saving to DynamoDB", r),
                      NilStateData, "writer")
       ELSE IF RetryLoopCond(gor[g].attempt + 1)
       THEN /\ gor' = [gor EXCEPT ![g].attempt = @ + 1,
                                      ![g].backoff = NextBackoff(@)]
            /\ smCalls' = [smCalls EXCEPT ![gor[g].call].sleeps =
                                Append(@, gor[g].backoff)]
            /\ UNCHANGED <<mutex, bg>>
       ELSE SaveAfterLoop(g)
    /\ UNCHANGED <<now, cleanupLog>>
    /\ UNCHANGED <<retryVars, stageVars, hierVars, collVars, orchVars, acctVars>>

\* One iteration of the for loop of Save, lines 109-123, and what follows
\* when it ends the loop: saveToDynamoDB puts the item and PutItem answers r.
Save_Write(g, r) ==
    /\ gor[g].pc = "write"
    /\ putLog' = Append(putLog, [call |-> gor[g].call,
                                 item |-> Item(gor[g].stateData),
                                 attempt |-> gor[g].attempt, res |-> r])
    /\ table' = IF r = "nil" THEN PutItem(table, Item(gor[g].stateData))
                ELSE table
    /\ IF r = "nil"
       THEN SaveAfterLoop(g)
       ELSE IF LastAttempt(gor[g].attempt)
       THEN /\ Return(g, StateError("Save",
                          "max retries exceeded while saving to DynamoDB", r),
                      NilStateData, "writer")
            /\ UNCHANGED bg
       ELSE IF RetryLoopCond(gor[g].attempt + 1)
       THEN /\ gor' = [gor EXCEPT ![g].attempt = @ + 1,
                                      ![g].backoff = NextBackoff(@)]
            /\ smCalls' = [smCalls EXCEPT ![gor[g].call].sleeps =
                                Append(@, gor[g].backoff)]
            /\ UNCHANGED <<mutex, bg>>
       ELSE SaveAfterLoop(g)
    /\ UNCHANGED <<now, cleanupLog>>
    /\ UNCHANGED <<retryVars, stageVars, hierVars, collVars, orchVars, acctVars>>

\* The goroutine of the go statement of Save starts to run.
Save_BackupStart(i) ==
    /\ i \in 1..Len(bg)
    /\ bg[i].pc = "spawned"
    /\ bg' = [bg EXCEPT ![i].pc = "running"]
    /\ UNCHANGED <<now, mutex, table, gor, smCalls, putLog,
                   cleanupLog>>
    /\ UNCHANGED <<retryVars, stageVars, hierVars, collVars, orchVars, acctVars>>

\* backupToS3 returns r in that goroutine; an error is logged.
Save_BackupEnd(i, r) ==
    /\ i \in 1..Len(bg)
    /\ bg[i].pc = "running"
    /\ bg' = [bg EXCEPT ![i].pc = "done", ![i].res = r]
    /\ UNCHANGED <<now, mutex, table, gor, smCalls, putLog,
                   cleanupLog>>
    /\ UNCHANGED <<retryVars, stageVars, hierVars, collVars, orchVars, acctVars>>

\* Load, lines 145-150: RLock.  The call comes from a goroutine of the
\* process or from CreateBackup (line 199), which holds the mutex.
Load_RLock(g) ==
    /\ gor[g].pc \in {"idle", "rlock"}
    /\ gor[g].pc = "idle" => Len(smCalls) < MaxCalls
    /\ CanRLock
    /\ mutex' = [mutex EXCEPT !.readers = @ \cup {g}]
    /\ IF gor[g].pc = "idle"
       THEN /\ smCalls' = Append(smCalls, NewCall("Load", "none"))
            /\ gor' = [gor EXCEPT ![g] =
                 [IdleFrame EXCEPT !.pc = "read", !.op = "Load",
                                   !.call = Len(smCalls) + 1,
                                   !.backoff = InitialBackoff]]
       ELSE /\ gor' = [gor EXCEPT ![g].pc = "read",
                                      ![g].attempt = 0,
                                      ![g].backoff = InitialBackoff]
            /\ UNCHANGED smCalls
    /\ UNCHANGED <<now, table, putLog, cleanupLog, bg>>
    /\ UNCHANGED <<retryVars, stageVars, hierVars, collVars, orchVars, acctVars>>

\* Load returns (data, err) to its caller.  A goroutine of the process
\* gets the pair; CreateBackup goes on with lines 200-223: the id from
\* time.Now(), backupToS3 and its own return.
LoadReturn(g, data, err) ==
    IF gor[g].op = "Load"
    THEN Return(g, err, data, "reader")
    ELSE IF err.kind # "nil"
    THEN Return(g, StateError("CreateBackup", "failed to load current state",
                              "Load"),
                NilStateData, "both")
    ELSE \E rb \in BackupResults :
            IF rb # "nil"
            THEN ReturnWith(g, StateError("CreateBackup",
                                          "failed to create backup in S3", rb),
                            NilStateData, rb, "both")
            ELSE ReturnWith(g, SmNil, [data EXCEPT !.BackupID = BackupId(now)],
                            rb, "both")

\* Lines 179-183 of Load: the log call reads stateData.Version, which
\* panics when stateData is nil.
AfterLoadLoop(g, data) ==
    IF data.isNil
    THEN Return(g, NilDereference, NilStateData,
                IF gor[g].op = "Load" THEN "reader" ELSE "both")
    ELSE LoadReturn(g, data, SmNil)

\* One iteration of the for loop of Load, lines 161-177, and what follows
\* when it ends the loop: loadFromDynamoDB returns r.
Load_Read(g, r) ==
    /\ gor[g].pc = "read"
    /\ IF r.err = "nil"
       THEN AfterLoadLoop(g, r.data)
       ELSE IF LastAttempt(gor[g].attempt)
       THEN LoadReturn(g, NilStateData,
                       StateError("Load",
                           "max retries exceeded while loading from DynamoDB",
                           r.err))
       ELSE IF RetryLoopCond(gor[g].attempt + 1)
       THEN /\ gor' = [gor EXCEPT ![g].attempt = @ + 1,
                                      ![g].backoff = NextBackoff(@)]
            /\ smCalls' = [smCalls EXCEPT ![gor[g].call].sleeps =
                                Append(@, gor[g].backoff)]
            /\ UNCHANGED mutex
       ELSE AfterLoadLoop(g, r.data)
    /\ UNCHANGED <<now, table, putLog, cleanupLog, bg>>
    /\ UNCHANGED <<retryVars, stageVars, hierVars, collVars, orchVars, acctVars>>

\* CreateBackup, lines 187-199: Lock, then the call of sm.Load.
CreateBackup_Lock(g) ==
    /\ gor[g].pc = "idle"
    /\ Len(smCalls) < MaxCalls
    /\ CanLock
    /\ mutex' = [mutex EXCEPT !.writer = g]
    /\ smCalls' = Append(smCalls, NewCall("CreateBackup", "none"))
    /\ gor' = [gor EXCEPT ![g] =
         [IdleFrame EXCEPT !.pc = "rlock", !.op = "CreateBackup",
                           !.call = Len(smCalls) + 1]]
    /\ UNCHANGED <<now, table, putLog, cleanupLog, bg>>
    /\ UNCHANGED <<retryVars, stageVars, hierVars, collVars, orchVars, acctVars>>

\* CleanupOldStates, lines 227-239: Lock, expiryDate from time.Now().
CleanupOldStates_Lock(g, d) ==
    /\ gor[g].pc = "idle"
    /\ Len(smCalls) < MaxCalls
    /\ CanLock
    /\ TimeNow(d)
    /\ mutex' = [mutex EXCEPT !.writer = g]
    /\ smCalls' = Append(smCalls, NewCall("CleanupOldStates", "none"))
    /\ gor' = [gor EXCEPT ![g] =
         [IdleFrame EXCEPT !.pc = "cleanupDynamoDB", !.op = "CleanupOldStates",
                           !.call = Len(smCalls) + 1,
                           !.timeNow = now',
                           !.expiryDate = AddDate(now', -StateExpiryDays)]]
    /\ UNCHANGED <<table, putLog, cleanupLog, bg>>
    /\ UNCHANGED <<retryVars, stageVars, hierVars, collVars, orchVars, acctVars>>

\* CleanupOldStates, lines 241-248: cleanupDynamoDB answers r.
CleanupOldStates_DynamoDB(g, r) ==
    /\ gor[g].pc = "cleanupDynamoDB"
    /\ cleanupLog' = Append(cleanupLog,
           [call |-> gor[g].call, store |-> "dynamodb",
            timeNow |-> gor[g].timeNow,
            expiryDate |-> gor[g].expiryDate, res |-> r])
    /\ table' = cleanupDynamoDB(table, gor[g].expiryDate).table
    /\ IF r # "nil"
       THEN Return(g, StateError("CleanupOldStates",
                                 "failed to cleanup DynamoDB", r),
                   NilStateData, "writer")
       ELSE /\ gor' = [gor EXCEPT ![g].pc = "cleanupS3"]
            /\ UNCHANGED <<mutex, smCalls>>
    /\ UNCHANGED <<now, putLog, bg>>
    /\ UNCHANGED <<retryVars, stageVars, hierVars, collVars, orchVars, acctVars>>

\* CleanupOldStates, lines 250-263: cleanupS3 answers r.
CleanupOldStates_S3(g, r) ==
    /\ gor[g].pc = "cleanupS3"
    /\ cleanupLog' = Append(cleanupLog,
           [call |-> gor[g].call, store |-> "s3",
            timeNow |-> gor[g].timeNow,
            expiryDate |-> gor[g].expiryDate, res |-> r])
    /\ Return(g, IF r # "nil"
                 THEN StateError("CleanupOldStates", "failed to cleanup S3", r)
                 ELSE SmNil,
              NilStateData, "writer")
    /\ UNCHANGED <<now, table, putLog, bg>>
    /\ UNCHANGED <<retryVars, stageVars, hierVars, collVars, orchVars, acctVars>>

StoreNext ==
    \/ \E g \in Goroutines : \E state \in StateInputs : \E d \in Jumps :
            Save_Lock(g, state, d)
    \/ \E g \in Goroutines : \E r \in PutItemResults(gor[g].attempt) :
            Save_Write(g, r)
    \/ \E i \in 1..MaxCalls : Save_BackupStart(i)
    \/ \E i \in 1..MaxCalls : \E r \in BackupResults : Save_BackupEnd(i, r)
    \/ \E g \in Goroutines : Load_RLock(g)
    \/ \E g \in Goroutines : \E r \in LoadResults : Load_Read(g, r)
    \/ \E g \in Goroutines : CreateBackup_Lock(g)
    \/ \E g \in Goroutines : \E d \in Jumps : CleanupOldStates_Lock(g, d)
    \/ \E g \in Goroutines :
          \E r \in CleanupDynamoDBResults(table, gor[g].expiryDate) :
            CleanupOldStates_DynamoDB(g, r)
    \/ \E g \in Goroutines : \E r \in CleanupS3Results(gor[g].expiryDate) :
            CleanupOldStates_S3(g, r)

(***************************************************************************)
(* StateManager.Close (unnamed/part_006:267-270) and the metrics Collector *)
(* it closes (metrics/collector.go).  A metric is its kind and name.       *)
(***************************************************************************)

\* The metric names of a kind: the ones the StateManager records and, for
\* the kinds it does not use, one name.
MetricNames(kind) ==
    IF kind = "counter" THEN {"state_saves", "state_loads"}
    ELSE IF kind = "histogram"
    THEN {"state_save_duration", "state_load_duration"}
    ELSE IF kind = "gauge" THEN {"gauge"}
    ELSE {"summary"}

\* NewCollector: empty maps and a registry of its own; defaultRegisterer is
\* prometheus.DefaultRegisterer, where promauto registers what it creates.
NewCollector ==
    [counters |-> {}, gauges |-> {}, histograms |-> {}, summaries |-> {},
     registry |-> {}, defaultRegisterer |-> {}]

Unregister_Toggle(reg, m) == IF m \in reg THEN reg \ {m} ELSE reg \cup {m}
\* registry.Unregister(m): m is no longer registered.
Unregister(reg, m) == reg \ {m}

\* for _, m := range ... { c.registry.Unregister(m) }
RECURSIVE UnregisterAll(_, _)
UnregisterAll(reg, ms) ==
    IF ms = {} THEN reg
    ELSE LET m == CHOOSE x \in ms : TRUE
         IN UnregisterAll(Unregister(reg, m), ms \ {m})

\* Collector.Close: the four range loops, then return nil.
CollectorClose(c) ==
    [collector |->
        [c EXCEPT !.registry =
            UnregisterAll(@,
                {[kind |-> "counter", name |-> n] : n \in c.counters}
                \cup {[kind |-> "gauge", name |-> n] : n \in c.gauges}
                \cup {[kind |-> "histogram", name |-> n] : n \in c.histograms}
                \cup {[kind |-> "summary", name |-> n] : n \in c.summaries})],
     err |-> "nil"]

\* IncrementCounter, SetGauge, RecordDuration or RecordValue with a name
\* the map of the kind lacks: promauto creates the metric, the map keeps
\* it.
Collector_Record(kind, name) ==
    /\ collector' =
          [collector EXCEPT
             !.counters = IF kind = "counter" THEN @ \cup {name} ELSE @,
             !.gauges = IF kind = "gauge" THEN @ \cup {name} ELSE @,
             !.histograms = IF kind = "histogram" THEN @ \cup {name} ELSE @,
             !.summaries = IF kind = "summary" THEN @ \cup {name} ELSE @,
             !.defaultRegisterer = @ \cup {[kind |-> kind, name |-> name]}]
    /\ collector' # collector
    /\ UNCHANGED closeRes
    /\ UNCHANGED <<retryVars, stageVars, hierVars, storeVars, orchVars, acctVars>>

\* sm.Close(): logs and returns sm.metrics.Close().
StateManager_Close ==
    /\ Len(closeRes) < MaxCloses
    /\ collector' = CollectorClose(collector).collector
    /\ closeRes' = Append(closeRes, CollectorClose(collector).err)
    /\ UNCHANGED <<retryVars, stageVars, hierVars, storeVars, orchVars, acctVars>>

CollNext ==
    \/ \E kind \in {"counter", "gauge", "histogram", "summary"} :
          \E n \in MetricNames(kind) : Collector_Record(kind, n)
    \/ StateManager_Close

(***************************************************************************)
(* The provisioning run of main (main.go:37-188) with the code it calls:   *)
(* Organization.initialize and createOU (organization.go:76-215),          *)
(* SetupLandingZone with createRoleWithRetry (landing_zone.go:446-598) and *)
(* AccountManager.CreateAccount (accounts.go:121-169).  The functions      *)
(* setupLandingZoneWithRetry and CreateAccount are also entered on their   *)
(* own, with any argument.  An error is the chain of its messages,         *)
(* outermost first; the nil error is the empty chain.                      *)
(***************************************************************************)

NoErr == <<>>
\* fmt.Errorf("<msg>: %w", err)
Wrapf(msg, err) == <<msg>> \o err

\* What a call that can fail with the error e returns: limiter.Wait(ctx)
\* with a context that can be cancelled, a provider call, Save.
Results(e) == {NoErr, <<e>>}

\* The configurations a run is given: lz is the *LandingZoneConfig (as in
\* SetupLandingZone above), rest is whether the remaining checks of
\* OrganizationConfig.Validate pass.
Configs ==
    {[lz |-> "nil", rest |-> "ok"], [lz |-> "noRegions", rest |-> "ok"],
     [lz |-> "valid", rest |-> "ok"], [lz |-> "valid", rest |-> "bad"]}

\* OrganizationConfig.Validate (config/types.go:182-221).
Validate(c) ==
    IF c.lz = "nil" THEN <<"landing zone configuration is required">>
    ELSE IF c.lz = "noRegions"
    THEN Wrapf("basic configuration validation failed",
               <<"at least one governed region is required">>)
    ELSE IF c.rest = "bad"
    THEN Wrapf("configuration validation failed", <<"invalid setting">>)
    ELSE NoErr

\* Organization.validateConfig (organization.go:130-137).
OrgValidateConfig(c) ==
    IF c.lz = "nil"
    THEN <<"invalid organization configuration: config cannot be nil">>
    ELSE NoErr

\* lz.validateConfig as an error chain.
LzValidateConfig(c) ==
    IF ValidateConfig(c.lz).isNil THEN NoErr ELSE <<ValidateConfig(c.lz).msg>>

\* The AccountConfig arguments of CreateAccount.
AccountConfigs ==
    [name : {"short", "ok"}, email : {"bad", "ok"}, parent : {"nil", "set"}]

\* AccountManager.validateAccountConfig (accounts.go:172-186).
ValidateAccountConfig(a) ==
    IF a.name # "ok"
    THEN <<"account name must be between 3 and 50 characters">>
    ELSE IF a.email # "ok" THEN <<"invalid email format">>
    ELSE IF a.parent = "nil" THEN <<"parent OU ID is required">>
    ELSE NoErr

\* The retry loops, named after the function that runs them: the limiter
\* a loop waits on, its MaxAttempts, where its operation closure begins
\* (createOU takes its token before the loop, organization.go:188, the
\* others inside the closure) and where the closure goes on once the token
\* is taken.
SiteOf(site) ==
    IF site = "createOrganizationWithRetry"
    THEN [limiter |-> "main", maxAttempts |-> mainMaxAttempts,
          start |-> "wait", body |-> "newOrganization"]
    ELSE IF site = "setupLandingZoneWithRetry"
    THEN [limiter |-> "main", maxAttempts |-> mainMaxAttempts,
          start |-> "wait", body |-> "setupLandingZone"]
    ELSE IF site = "createOU"
    THEN [limiter |-> "organization", maxAttempts |-> maxRetryAttempts,
          start |-> "call", body |-> "call"]
    ELSE IF site = "createRoleWithRetry"
    THEN [limiter |-> "landingZone", maxAttempts |-> MaxRetryAttempts,
          start |-> "wait", body |-> "call"]
    ELSE [limiter |-> "accounts", maxAttempts |-> maxRetryAttempts,
          start |-> "wait", body |-> "call"]

\* The loops that guard a provider call.
InnerSites == {"createOU", "createRoleWithRetry", "CreateAccount"}

\* The phases of a run of main, in order.
Phases == <<"validate", "organization", "hierarchy", "landingZone", "save">>

OrchRest ==
    [entry |-> "none", pc |-> "idle", cfg |-> [lz |-> "nil", rest |-> "ok"],
     acct |-> [name |-> "ok", email |-> "ok", parent |-> "set"],
     loops |-> <<>>, token |-> FALSE, ou |-> 0, err |-> NoErr,
     deferred |-> FALSE, ret |-> NoErr, hooks |-> <<>>, lastErr |-> NoErr]

\* What a run has done so far; count is the number of provider calls made
\* by each kind of closure and of invocations of each stage function,
\* backup the goroutine of the go statement of Save ("none" before it is
\* started, then "spawned", then "done"), exited whether main has returned,
\* invoked the functions of o.cleanup that Cleanup has called, in order.
ObsRest ==
    [phase |-> [p \in {Phases[i] : i \in 1..Len(Phases)} |-> "idle"], issued |-> {}, admitted |-> {},
     cleanups |-> 0, logged |-> {}, failure |-> [phase |-> "none", err |-> NoErr],
     result |-> <<"none">>, backup |-> "none", exited |-> FALSE,
     invoked |-> <<>>,
     count |-> [c \in InnerSites \cup StageSet \cup {"createOrganization"} |-> 0]]

\* The loop that is running, and a loop that is entered.
Top == orch.loops[Len(orch.loops)]
NewLoop(site) == [site |-> site, attempt |-> 1, lastErr |-> NoErr]

\* main up to the call of the closure by pulumi.Run: the limiter, the
\* state manager and the context with DefaultTimeout are built.
Main_Start(c) ==
    /\ orch.entry = "none"
    /\ orch' = [OrchRest EXCEPT !.entry = "main", !.pc = "validate", !.cfg = c]
    /\ deadline' = "pending"
    /\ obs' = [obs EXCEPT !.phase["validate"] = "started"]
    /\ UNCHANGED <<retryVars, stageVars, hierVars, storeVars, collVars, acctVars>>

\* setupLandingZoneWithRetry called with any configuration.
SetupLandingZoneWithRetry_Start(c) ==
    /\ orch.entry = "none"
    /\ orch' = [OrchRest EXCEPT !.entry = "setupLandingZoneWithRetry",
                                !.pc = "wait", !.cfg = c,
                                !.loops = <<NewLoop("setupLandingZoneWithRetry")>>]
    /\ UNCHANGED <<deadline, obs>>
    /\ UNCHANGED <<retryVars, stageVars, hierVars, storeVars, collVars, acctVars>>

\* CreateAccount called with any account configuration, up to its loop:
\* am.validateAccountConfig(accountConfig) and the return after it.
CreateAccount_Start(a) ==
    /\ orch.entry = "none"
    /\ IF ValidateAccountConfig(a) # NoErr
       THEN /\ orch' = [OrchRest EXCEPT !.entry = "CreateAccount",
                                        !.pc = "returned", !.acct = a]
            /\ obs' = [obs EXCEPT !.result = ValidateAccountConfig(a)]
       ELSE /\ orch' = [OrchRest EXCEPT !.entry = "CreateAccount",
                                        !.pc = "wait", !.acct = a,
                                        !.loops = <<NewLoop("CreateAccount")>>]
            /\ UNCHANGED obs
    /\ UNCHANGED deadline
    /\ UNCHANGED <<retryVars, stageVars, hierVars, storeVars, collVars, acctVars>>

\* DefaultTimeout has passed since main built its context.
DeadlineExpires ==
    /\ deadline = "pending"
    /\ orch.pc # "returned"
    /\ deadline' = "expired"
    /\ UNCHANGED <<orch, obs>>
    /\ UNCHANGED <<retryVars, stageVars, hierVars, storeVars, collVars, acctVars>>

\* cfg, err := loadAndValidateConfig(ctx, logger) and the return after it;
\* on success createOrganizationWithRetry is entered.
LoadAndValidateConfig ==
    /\ orch.entry = "main"
    /\ orch.pc = "validate"
    /\ IF Validate(orch.cfg) # NoErr
       THEN /\ orch' = [orch EXCEPT !.err = Validate(orch.cfg),
                                    !.ret = Validate(orch.cfg),
                                    !.pc = "return"]
            /\ obs' = [obs EXCEPT !.phase["validate"] = "failed",
                                  !.failure = [phase |-> "validate",
                                               err |-> Validate(orch.cfg)]]
       ELSE /\ orch' = [orch EXCEPT !.err = NoErr, !.pc = "wait",
                           !.loops = <<NewLoop("createOrganizationWithRetry")>>]
            /\ obs' = [obs EXCEPT !.phase["validate"] = "ok",
                                  !.phase["organization"] = "started"]
    /\ UNCHANGED deadline
    /\ UNCHANGED <<retryVars, stageVars, hierVars, storeVars, collVars, acctVars>>

\* The first statement of an operation closure,
\* if err := limiter.Wait(ctx); err != nil { return err }: r is what Wait
\* returns.  The closure of CreateAccount wraps the error.
Operation_Wait(r) ==
    /\ orch.pc = "wait"
    /\ IF r = NoErr
       THEN /\ orch' = [orch EXCEPT !.pc = SiteOf(Top.site).body,
                                    !.token = Top.site \in InnerSites]
            /\ obs' = [obs EXCEPT !.admitted = @ \cup {SiteOf(Top.site).limiter}]
       ELSE /\ orch' = [orch EXCEPT !.pc = "opDone",
                           !.ret = IF Top.site = "CreateAccount"
                                   THEN Wrapf("rate limit exceeded", r)
                                   ELSE r]
            /\ UNCHANGED obs
    /\ UNCHANGED deadline
    /\ UNCHANGED <<retryVars, stageVars, hierVars, storeVars, collVars, acctVars>>

InitializeNext_IgnoreError(err, next) == next
\* What follows a step of Organization.initialize that returned err: the
\* return of the error to the closure, or the next step.
InitializeNext(err, next) == IF err # NoErr THEN "opDone" ELSE next

\* organization.NewOrganization up to o.validateConfig(cfg) in initialize:
\* a new Organization with a limiter of its own.
NewOrganization ==
    /\ orch.pc = "newOrganization"
    /\ orch' = [orch EXCEPT
                  !.pc = InitializeNext(OrgValidateConfig(orch.cfg),
                                        "createOrganization"),
                  !.ret = OrgValidateConfig(orch.cfg)]
    /\ obs' = [obs EXCEPT !.phase["organization"] =
                  IF OrgValidateConfig(orch.cfg) # NoErr
                  THEN "failed" ELSE "started"]
    /\ UNCHANGED deadline
    /\ UNCHANGED <<retryVars, stageVars, hierVars, storeVars, collVars, acctVars>>

\* o.createOrganization: o.limiter.Wait(context.Background()), which no
\* cancellation reaches, then the provider call, which returns r.
CreateOrganization(r) ==
    /\ orch.pc = "createOrganization"
    /\ orch' = [orch EXCEPT
                  !.pc = InitializeNext(r, "waitOU"),
                  !.ret = IF r # NoErr
                          THEN Wrapf("failed to create organization", r)
                          ELSE NoErr,
                  !.ou = 1, !.token = FALSE]
    /\ obs' = [obs EXCEPT
                  !.admitted = @ \cup {"organization"},
                  !.issued = @ \cup {[call |-> "createOrganization",
                                      token |-> TRUE]},
                  !.count["createOrganization"] = @ + 1,
                  !.phase["organization"] = IF r # NoErr THEN "failed" ELSE "ok",
                  !.phase["hierarchy"] =
                      IF InitializeNext(r, "waitOU") = "waitOU"
                      THEN "started" ELSE @]
    /\ UNCHANGED deadline
    /\ UNCHANGED <<retryVars, stageVars, hierVars, storeVars, collVars, acctVars>>

\* o.createOU before its loop: one o.limiter.Wait(context.Background()),
\* then RetryWithBackoff is entered.
CreateOU_Wait ==
    /\ orch.pc = "waitOU"
    /\ orch' = [orch EXCEPT !.pc = "call", !.token = TRUE,
                            !.loops = Append(@, NewLoop("createOU"))]
    /\ obs' = [obs EXCEPT !.admitted = @ \cup {"organization"}]
    /\ UNCHANGED deadline
    /\ UNCHANGED <<retryVars, stageVars, hierVars, storeVars, collVars, acctVars>>

\* The provider call of an operation closure (NewOrganizationalUnit,
\* iam.NewRole, NewAccount) returns r; it uses up the token taken for it.
ProviderCall(r) ==
    /\ orch.pc = "call"
    /\ orch' = [orch EXCEPT !.pc = "opDone", !.ret = r, !.token = FALSE]
    /\ obs' = [obs EXCEPT !.issued = @ \cup {[call |-> Top.site,
                                              token |-> orch.token]},
                          !.count[Top.site] = @ + 1]
    /\ UNCHANGED deadline
    /\ UNCHANGED <<retryVars, stageVars, hierVars, storeVars, collVars, acctVars>>

\* RetryWithBackoff after operation() returned orch.ret: return nil, go to
\* sleep before the next attempt, or return the error of the last attempt.
RetryWithBackoff_Result ==
    /\ orch.pc = "opDone"
    /\ IF orch.ret = NoErr
       THEN orch' = [orch EXCEPT !.pc = "loopDone"]
       ELSE IF Top.attempt < SiteOf(Top.site).maxAttempts
       THEN orch' = [orch EXCEPT !.pc = "sleep",
                                 !.loops[Len(orch.loops)].lastErr = orch.ret]
       ELSE orch' = [orch EXCEPT !.pc = "loopDone",
                                 !.loops[Len(orch.loops)].lastErr = orch.ret,
                                 !.ret = Wrapf("operation failed after 3 attempts",
                                               orch.ret)]
    /\ UNCHANGED <<deadline, obs>>
    /\ UNCHANGED <<retryVars, stageVars, hierVars, storeVars, collVars, acctVars>>

\* time.Sleep(delay) returns and the next iteration calls operation().
RetryWithBackoff_Sleep ==
    /\ orch.pc = "sleep"
    /\ orch' = [orch EXCEPT !.pc = SiteOf(Top.site).start,
                            !.loops[Len(orch.loops)].attempt = @ + 1]
    /\ UNCHANGED <<deadline, obs>>
    /\ UNCHANGED <<retryVars, stageVars, hierVars, storeVars, collVars, acctVars>>

\* createOU after its loop, and createOUs: an error goes up through
\* initialize and NewOrganization to the closure of
\* createOrganizationWithRetry; otherwise the next OU follows (Security is
\* OU 1, the default OU is OU 2).
CreateOU_Return ==
    /\ orch.pc = "loopDone"
    /\ Top.site = "createOU"
    /\ IF orch.ret # NoErr
       THEN /\ orch' = [orch EXCEPT !.pc = "opDone", !.loops = SubSeq(@, 1, Len(@) - 1),
                                    !.ret = Wrapf("failed to create OU", @)]
            /\ obs' = [obs EXCEPT !.phase["hierarchy"] = "failed"]
       ELSE /\ orch' = [orch EXCEPT
                          !.pc = IF orch.ou < 2
                                 THEN "waitOU" ELSE "additionalOUs",
                          !.ou = IF orch.ou < 2 THEN @ + 1 ELSE @,
                          !.loops = SubSeq(@, 1, Len(@) - 1)]
            /\ UNCHANGED obs
    /\ UNCHANGED deadline
    /\ UNCHANGED <<retryVars, stageVars, hierVars, storeVars, collVars, acctVars>>

\* The methods createAdditionalOUs and storeOrganizationInfo, which the
\* package calls and does not define: each returns nil or an error.
MissingMethodResults == Results("error of a method without a body")

\* return o.createAdditionalOUs(ctx, cfg) returns r1 and, when that is nil,
\* o.storeOrganizationInfo(ctx, cfg) returns r2; then initialize and
\* NewOrganization return.
Initialize_Finish(r1, r2) ==
    /\ orch.pc = "additionalOUs"
    /\ orch' = [orch EXCEPT !.pc = "opDone",
                            !.ret = IF r1 # NoErr THEN r1 ELSE r2]
    /\ obs' = [obs EXCEPT !.phase["hierarchy"] =
                  IF r1 # NoErr \/ r2 # NoErr THEN "failed" ELSE "ok"]
    /\ UNCHANGED deadline
    /\ UNCHANGED <<retryVars, stageVars, hierVars, storeVars, collVars, acctVars>>

SetupLandingZone_Start_FailedOnly(newOk) ==
    /\ orch.pc = "setupLandingZone"
    /\ IF ~newOk
       THEN /\ orch' = [orch EXCEPT !.pc = "opDone",
                           !.ret = <<"failed to create landing zone">>]
            /\ UNCHANGED obs
       ELSE IF LzValidateConfig(orch.cfg) # NoErr
       THEN /\ orch' = [orch EXCEPT !.pc = "opDone",
                                    !.ret = LzValidateConfig(orch.cfg)]
            /\ UNCHANGED obs
       ELSE /\ orch' = [orch EXCEPT !.pc = "wait",
                           !.loops = Append(@, NewLoop("createRoleWithRetry"))]
            /\ obs' = [obs EXCEPT !.count =
                          [c \in DOMAIN @ |->
                              IF c = "setupRoles" \/ (c \in StageSet /\ @[c] = 0)
                              THEN @[c] + 1 ELSE @[c]]]
    /\ UNCHANGED deadline
    /\ UNCHANGED <<retryVars, stageVars, hierVars, storeVars, collVars, acctVars>>

\* SetupLandingZone up to the stages: NewLandingZone builds a landing zone
\* with a limiter of its own, lz.validateConfig(cfg) checks the
\* configuration, then the four go statements invoke the stage functions
\* and setupRoles enters createRoleWithRetry.
SetupLandingZone_Start(newOk) ==
    /\ orch.pc = "setupLandingZone"
    /\ IF ~newOk
       THEN /\ orch' = [orch EXCEPT !.pc = "opDone",
                           !.ret = <<"failed to create landing zone">>]
            /\ UNCHANGED obs
       ELSE IF LzValidateConfig(orch.cfg) # NoErr
       THEN /\ orch' = [orch EXCEPT !.pc = "opDone",
                                    !.ret = LzValidateConfig(orch.cfg)]
            /\ UNCHANGED obs
       ELSE /\ orch' = [orch EXCEPT !.pc = "wait",
                           !.loops = Append(@, NewLoop("createRoleWithRetry"))]
            /\ obs' = [obs EXCEPT !.count =
                          [c \in DOMAIN @ |->
                              IF c \in StageSet THEN @[c] + 1 ELSE @[c]]]
    /\ UNCHANGED deadline
    /\ UNCHANGED <<retryVars, stageVars, hierVars, storeVars, collVars, acctVars>>

\* createRoleWithRetry and setupRoles return, the other stages return nil,
\* and SetupLandingZone returns to the closure of
\* setupLandingZoneWithRetry.
SetupLandingZone_Return ==
    /\ orch.pc = "loopDone"
    /\ Top.site = "createRoleWithRetry"
    /\ orch' = [orch EXCEPT !.pc = "opDone", !.loops = SubSeq(@, 1, Len(@) - 1),
                            !.ret = IF @ # NoErr
                                    THEN Wrapf("landing zone setup failed", @)
                                    ELSE NoErr]
    /\ UNCHANGED <<deadline, obs>>
    /\ UNCHANGED <<retryVars, stageVars, hierVars, storeVars, collVars, acctVars>>

\* createOrganizationWithRetry returns to the closure of main: org, err :=
\* assigns the err of the closure; on success the deferred function is
\* registered and setupLandingZoneWithRetry is entered.
CreateOrganizationWithRetry_Return ==
    /\ orch.pc = "loopDone"
    /\ Top.site = "createOrganizationWithRetry"
    /\ IF orch.ret # NoErr
       THEN /\ orch' = [orch EXCEPT !.pc = "return", !.loops = <<>>,
                                    !.err = orch.ret]
            /\ obs' = [obs EXCEPT !.failure =
                          [phase |-> IF obs.phase["organization"] = "failed"
                                     THEN "organization" ELSE "hierarchy",
                           err |-> orch.ret]]
       ELSE /\ orch' = [orch EXCEPT !.pc = "wait", !.err = NoErr,
                           !.deferred = TRUE,
                           !.loops = <<NewLoop("setupLandingZoneWithRetry")>>]
            /\ obs' = [obs EXCEPT !.phase["landingZone"] = "started"]
    /\ UNCHANGED deadline
    /\ UNCHANGED <<retryVars, stageVars, hierVars, storeVars, collVars, acctVars>>

ReturnError_ClosureErr(ifErr, closureErr) == closureErr
\* return pulumi.Error(err) inside if err := ...; err != nil { }: the err
\* named is the one the if statement declares, not the err of the closure.
ReturnError(ifErr, closureErr) == ifErr

\* setupLandingZoneWithRetry returns: to its caller when it was entered on
\* its own, else to the closure of main, which returns the error or goes
\* on to stateManager.Save.
SetupLandingZoneWithRetry_Return ==
    /\ orch.pc = "loopDone"
    /\ Top.site = "setupLandingZoneWithRetry"
    /\ IF orch.entry # "main"
       THEN /\ orch' = [orch EXCEPT !.pc = "returned", !.loops = <<>>]
            /\ obs' = [obs EXCEPT !.result = orch.ret]
       ELSE IF orch.ret # NoErr
       THEN /\ orch' = [orch EXCEPT !.pc = "return", !.loops = <<>>,
                                    !.ret = ReturnError(orch.ret, orch.err)]
            /\ obs' = [obs EXCEPT !.phase["landingZone"] = "failed",
                                  !.failure = [phase |-> "landingZone",
                                               err |-> orch.ret]]
       ELSE /\ orch' = [orch EXCEPT !.pc = "save", !.loops = <<>>]
            /\ obs' = [obs EXCEPT !.phase["landingZone"] = "ok",
                                  !.phase["save"] = "started"]
    /\ UNCHANGED deadline
    /\ UNCHANGED <<retryVars, stageVars, hierVars, storeVars, collVars, acctVars>>

\* if err := stateManager.Save(ctx, org); err != nil { return ... };
\* return nil.  r is what Save returns; a Save that returns nil has
\* executed its go statement (part_006:126).
Main_Save(r) ==
    /\ orch.pc = "save"
    /\ orch' = [orch EXCEPT !.pc = "return",
                            !.ret = IF r # NoErr
                                    THEN ReturnError(r, orch.err) ELSE NoErr]
    /\ obs' = [obs EXCEPT !.phase["save"] = IF r # NoErr THEN "failed" ELSE "ok",
                          !.failure = IF r # NoErr
                                      THEN [phase |-> "save", err |-> r] ELSE @,
                          !.backup = IF r # NoErr THEN @ ELSE "spawned"]
    /\ UNCHANGED deadline
    /\ UNCHANGED <<retryVars, stageVars, hierVars, storeVars, collVars, acctVars>>

\* Organization.Cleanup: every function of o.cleanup runs, hooks being
\* their results in order; the error returned is the last one.
RECURSIVE Cleanup(_)
Cleanup(hooks) ==
    IF hooks = <<>> THEN NoErr
    ELSE IF hooks[Len(hooks)] # NoErr THEN hooks[Len(hooks)]
    ELSE Cleanup(SubSeq(hooks, 1, Len(hooks) - 1))

\* The errors a cleanup function can return, and the slices o.cleanup can
\* hold: a function is written as the result it returns.
HookResults == {NoErr, <<"cleanup error 1">>, <<"cleanup error 2">>}
HookLists == UNION {[1..n -> HookResults] : n \in 0..MaxHooks}

\* Organization.Cleanup called on an Organization with any o.cleanup:
\* var lastErr error.
Cleanup_Start(hooks) ==
    /\ orch.entry = "none"
    /\ orch' = [OrchRest EXCEPT !.entry = "Cleanup", !.pc = "range",
                                !.hooks = hooks]
    /\ UNCHANGED <<deadline, obs>>
    /\ UNCHANGED <<retryVars, stageVars, hierVars, storeVars, collVars, acctVars>>

Cleanup_Iterate_KeepFirst ==
    /\ orch.pc = "range"
    /\ Len(obs.invoked) < Len(orch.hooks)
    /\ LET i == Len(obs.invoked) + 1 IN
        /\ obs' = [obs EXCEPT !.invoked = Append(@, i)]
        /\ orch' = [orch EXCEPT !.lastErr = IF orch.hooks[i] # NoErr /\ @ = NoErr
                                            THEN orch.hooks[i] ELSE @]
    /\ UNCHANGED deadline
    /\ UNCHANGED <<retryVars, stageVars, hierVars, storeVars, collVars, acctVars>>

\* One iteration of for _, cleanup := range o.cleanup: the next function
\* is called; if err != nil { lastErr = err }.
Cleanup_Iterate ==
    /\ orch.pc = "range"
    /\ Len(obs.invoked) < Len(orch.hooks)
    /\ LET i == Len(obs.invoked) + 1 IN
        /\ obs' = [obs EXCEPT !.invoked = Append(@, i)]
        /\ orch' = [orch EXCEPT !.lastErr = IF orch.hooks[i] # NoErr
                                            THEN orch.hooks[i] ELSE @]
    /\ UNCHANGED deadline
    /\ UNCHANGED <<retryVars, stageVars, hierVars, storeVars, collVars, acctVars>>

\* The range loop is over: return lastErr.
Cleanup_Return ==
    /\ orch.pc = "range"
    /\ Len(obs.invoked) = Len(orch.hooks)
    /\ orch' = [orch EXCEPT !.pc = "returned"]
    /\ obs' = [obs EXCEPT !.result = orch.lastErr]
    /\ UNCHANGED deadline
    /\ UNCHANGED <<retryVars, stageVars, hierVars, storeVars, collVars, acctVars>>

\* The closure returns: the deferred function, once registered, reads the
\* err of the closure and calls org.Cleanup() when it is not nil; a
\* cleanup error is logged.  o.cleanup is empty: no statement of the
\* package appends to it.  pulumi.Run hands the returned error to main.
Main_Return ==
    /\ orch.pc = "return"
    /\ orch' = [orch EXCEPT !.pc = "returned"]
    /\ obs' = [obs EXCEPT
                 !.cleanups = IF orch.deferred /\ orch.err # NoErr
                              THEN @ + 1 ELSE @,
                 !.logged = IF /\ orch.deferred
                               /\ orch.err # NoErr
                               /\ Cleanup(<<>>) # NoErr
                            THEN @ \cup {"cleanup failed"} ELSE @,
                 !.result = orch.ret]
    /\ UNCHANGED deadline
    /\ UNCHANGED <<retryVars, stageVars, hierVars, storeVars, collVars, acctVars>>

\* The goroutine Save started runs backupToS3 to its end, which it can do
\* as long as the process lives.
Save_Backup ==
    /\ obs.backup = "spawned"
    /\ ~obs.exited
    /\ obs' = [obs EXCEPT !.backup = "done"]
    /\ UNCHANGED <<orch, deadline>>
    /\ UNCHANGED <<retryVars, stageVars, hierVars, storeVars, collVars, acctVars>>

\* pulumi.Run has returned: main calls logger.Fatal and os.Exit(1) on an
\* error and returns otherwise; either way the process ends, whatever
\* goroutines are left.
Main_Exit ==
    /\ orch.entry = "main"
    /\ orch.pc = "returned"
    /\ ~obs.exited
    /\ obs' = [obs EXCEPT !.exited = TRUE]
    /\ UNCHANGED <<orch, deadline>>
    /\ UNCHANGED <<retryVars, stageVars, hierVars, storeVars, collVars, acctVars>>

\* CreateAccount after its loop: the error is returned, or
\* am.storeAccountInfo is called, returns r, and CreateAccount returns.
CreateAccount_Return(r) ==
    /\ orch.pc = "loopDone"
    /\ Top.site = "CreateAccount"
    /\ orch' = [orch EXCEPT !.pc = "returned", !.loops = <<>>]
    /\ obs' = [obs EXCEPT !.result =
                  IF orch.ret # NoErr
                  THEN Wrapf("failed to create account", orch.ret)
                  ELSE r]
    /\ UNCHANGED deadline
    /\ UNCHANGED <<retryVars, stageVars, hierVars, storeVars, collVars, acctVars>>

OrchNext ==
    \/ \E c \in Configs : Main_Start(c)
    \/ \E c \in Configs : SetupLandingZoneWithRetry_Start(c)
    \/ \E a \in AccountConfigs : CreateAccount_Start(a)
    \/ \E hooks \in HookLists : Cleanup_Start(hooks)
    \/ Cleanup_Iterate
    \/ Cleanup_Return
    \/ DeadlineExpires
    \/ LoadAndValidateConfig
    \/ \E r \in Results("context canceled") : Operation_Wait(r)
    \/ NewOrganization
    \/ \E r \in Results("provider error") : CreateOrganization(r)
    \/ CreateOU_Wait
    \/ \E r \in Results("provider error") : ProviderCall(r)
    \/ RetryWithBackoff_Result
    \/ RetryWithBackoff_Sleep
    \/ CreateOU_Return
    \/ \E r1, r2 \in MissingMethodResults : Initialize_Finish(r1, r2)
    \/ \E newOk \in BOOLEAN : SetupLandingZone_Start(newOk)
    \/ SetupLandingZone_Return
    \/ CreateOrganizationWithRetry_Return
    \/ SetupLandingZoneWithRetry_Return
    \/ \E r \in Results("state error") : Main_Save(r)
    \/ Main_Return
    \/ Save_Backup
    \/ Main_Exit
    \/ \E r \in Results("provider error") : CreateAccount_Return(r)

(***************************************************************************)
(* AccountManager.Backup and Restore (unnamed/part_001:264-366).  Go maps  *)
(* are objects on a heap; am.accounts refers to one of them.  A backup is  *)
(* the JSON document of the parameter /organization/backups/<id> of the    *)
(* SSM Parameter Store; params holds these parameters by id.               *)
(***************************************************************************)

\* The contents a map[string]*AccountInfo can have: account ids to an
\* *AccountInfo as JSON shows it, null or the record of an account.
Registries ==
    UNION {[ids -> {"null", "active"}] : ids \in SUBSET {"a1", "a2"}}

\* The backup ids: "backup-" and time.Now() formatted to the second.
BackupIds == {"backup-20241101-120000", "backup-20241101-120001"}

\* The documents a parameter can hold: text that is no JSON (valid is
\* FALSE), a document whose "accounts" is null, and a document with an
\* accounts object.
Documents ==
    {[valid |-> FALSE, null |-> FALSE, accounts |-> <<>>],
     [valid |-> TRUE, null |-> TRUE, accounts |-> <<>>]}
    \cup {[valid |-> TRUE, null |-> FALSE, accounts |-> reg] :
             reg \in Registries}

\* json.Marshal(backupInfo): the entries of the map, by key.
MarshalBackup(reg) == [valid |-> TRUE, null |-> FALSE, accounts |-> reg]

\* am.accounts = make(map[string]*AccountInfo) and the loop that copies the
\* entries: the result is a new map on the heap and the reference to it.
RestoredRegistry_InPlace(heap, ref, entries) ==
    [heap |-> [heap EXCEPT ![ref] = entries @@ @], ref |-> ref]
RestoredRegistry(heap, ref, entries) ==
    [heap |-> Append(heap, entries), ref |-> Len(heap) + 1]

\* The first statement of Restore, am.mutex.Lock(), and of Backup,
\* am.mutex.RLock(): the call goes on when the mutex is free.
AccountManager_Lock(op) ==
    /\ Len(amCalls) < MaxAccountCalls
    /\ amMutex = "unlocked"
    /\ amMutex' = IF op = "Restore" THEN "writer" ELSE "reader"
    /\ UNCHANGED <<amHeap, amAccounts, params, amCalls>>
    /\ UNCHANGED <<retryVars, stageVars, hierVars, storeVars, collVars, orchVars>>

DeferredUnlock_OnSuccess(held, err) == IF err = "nil" THEN "unlocked" ELSE held
\* defer am.mutex.Unlock() (defer am.mutex.RUnlock() in Backup): the mutex
\* after the call has returned err.
DeferredUnlock(held, err) == "unlocked"

\* Backup: ctxOk is whether the context carries the Pulumi context, t the
\* id time.Now() gives, r what NewParameter returns.
AccountManager_Backup(ctxOk, t, r) ==
    /\ amMutex = "reader"
    /\ IF ~ctxOk
       THEN /\ amCalls' = Append(amCalls, [op |-> "Backup", id |-> t,
                             err |-> "pulumi context not found in context"])
            /\ UNCHANGED params
       ELSE IF r # "nil"
       THEN /\ amCalls' = Append(amCalls, [op |-> "Backup", id |-> t,
                             err |-> "failed to store backup in SSM"])
            /\ UNCHANGED params
       ELSE /\ amCalls' = Append(amCalls, [op |-> "Backup", id |-> t,
                                            err |-> "nil"])
            /\ params' = (t :> MarshalBackup(amHeap[amAccounts]))
                         @@ params
    /\ amMutex' = DeferredUnlock(amMutex, amCalls'[Len(amCalls')].err)
    /\ UNCHANGED <<amHeap, amAccounts>>
    /\ UNCHANGED <<retryVars, stageVars, hierVars, storeVars, collVars, orchVars>>

\* Restore(ctx, id): the parameter is looked up, its value unmarshalled and
\* checked, then the registry is replaced.
AccountManager_Restore(ctxOk, id) ==
    /\ amMutex = "writer"
    /\ IF ~ctxOk
       THEN /\ amCalls' = Append(amCalls, [op |-> "Restore", id |-> id,
                             err |-> "pulumi context not found in context"])
            /\ UNCHANGED <<amHeap, amAccounts>>
       ELSE IF id \notin DOMAIN params
       THEN /\ amCalls' = Append(amCalls, [op |-> "Restore", id |-> id,
                             err |-> "failed to retrieve backup"])
            /\ UNCHANGED <<amHeap, amAccounts>>
       ELSE IF ~params[id].valid
       THEN /\ amCalls' = Append(amCalls, [op |-> "Restore", id |-> id,
                             err |-> "failed to unmarshal backup data"])
            /\ UNCHANGED <<amHeap, amAccounts>>
       ELSE IF params[id].null
       THEN /\ amCalls' = Append(amCalls, [op |-> "Restore", id |-> id,
                             err |-> "invalid backup data: accounts map is nil"])
            /\ UNCHANGED <<amHeap, amAccounts>>
       ELSE /\ amCalls' = Append(amCalls, [op |-> "Restore", id |-> id,
                                            err |-> "nil"])
            /\ amHeap' = RestoredRegistry(amHeap, amAccounts,
                             params[id].accounts).heap
            /\ amAccounts' = RestoredRegistry(amHeap, amAccounts,
                                 params[id].accounts).ref
    /\ amMutex' = DeferredUnlock(amMutex, amCalls'[Len(amCalls')].err)
    /\ UNCHANGED params
    /\ UNCHANGED <<retryVars, stageVars, hierVars, storeVars, collVars, orchVars>>

AcctNext ==
    \/ \E op \in {"Backup", "Restore"} : AccountManager_Lock(op)
    \/ \E ctxOk \in BOOLEAN : \E t \in BackupIds : \E r \in {"nil", "errSSM"} :
          AccountManager_Backup(ctxOk, t, r)
    \/ \E ctxOk \in BOOLEAN : \E id \in BackupIds :
          AccountManager_Restore(ctxOk, id)

(***************************************************************************)
(* Specifications                                                          *)
(***************************************************************************)
\* A call of RetryWithBackoff with any configuration; nothing else runs.
InitRetry ==
    /\ config \in [MaxAttempts : 0..MaxAttemptsBound, Delay : 1..MaxBaseDelay]
    /\ attempt = 1
    /\ lastErr = "nil"
    /\ opLog = <<>>
    /\ sleeps = <<>>
    /\ retryPc = "loop"
    /\ retryErr = NilError
    /\ cfg = "nil"
    /\ lzPc = "returned"
    /\ launched = 0
    /\ stagePc = [s \in StageSet |-> "notStarted"]
    /\ stageRes = [s \in StageSet |-> "nil"]
    /\ errChan = <<>>
    /\ wg = 0
    /\ roles = {}
    /\ lzErr = LzNil
    /\ organizationUnits = [n |-> 0, parent |-> <<>>, name |-> <<>>]
    /\ hPc = "done"
    /\ topTodo = {}
    /\ stack = <<>>
    /\ ret = NilRet
    /\ additionalOUs = <<>>
    /\ calls = <<>>
    /\ existing = {}
    /\ nextId = 1
    /\ ssm = {}
    /\ run = "first"
    /\ firstCalls = <<>>
    /\ now = 0
    /\ mutex = Unlocked
    /\ table = <<>>
    /\ gor = [g \in Goroutines |-> IdleFrame]
    /\ smCalls = <<>>
    /\ putLog = <<>>
    /\ cleanupLog = <<>>
    /\ bg = <<>>
    /\ collector = NewCollector
    /\ closeRes = <<>>
    /\ orch = OrchRest
    /\ deadline = "none"
    /\ obs = ObsRest
    /\ amHeap = <<<<>>>>
    /\ amAccounts = 1
    /\ params = <<>>
    /\ amCalls = <<>>
    /\ amMutex = "unlocked"

\* A call of SetupLandingZone with any configuration; nothing else runs.
InitStages ==
    /\ config = [MaxAttempts |-> 0, Delay |-> 1]
    /\ attempt = 1
    /\ lastErr = "nil"
    /\ opLog = <<>>
    /\ sleeps = <<>>
    /\ retryPc = "returned"
    /\ retryErr = NilError
    /\ cfg \in {"nil", "noRegions", "valid"}
    /\ lzPc = "start"
    /\ launched = 0
    /\ stagePc = [s \in StageSet |-> "notStarted"]
    /\ stageRes = [s \in StageSet |-> "nil"]
    /\ errChan = <<>>
    /\ wg = 0
    /\ roles = {}
    /\ lzErr = LzNil
    /\ organizationUnits = [n |-> 0, parent |-> <<>>, name |-> <<>>]
    /\ hPc = "done"
    /\ topTodo = {}
    /\ stack = <<>>
    /\ ret = NilRet
    /\ additionalOUs = <<>>
    /\ calls = <<>>
    /\ existing = {}
    /\ nextId = 1
    /\ ssm = {}
    /\ run = "first"
    /\ firstCalls = <<>>
    /\ now = 0
    /\ mutex = Unlocked
    /\ table = <<>>
    /\ gor = [g \in Goroutines |-> IdleFrame]
    /\ smCalls = <<>>
    /\ putLog = <<>>
    /\ cleanupLog = <<>>
    /\ bg = <<>>
    /\ collector = NewCollector
    /\ closeRes = <<>>
    /\ orch = OrchRest
    /\ deadline = "none"
    /\ obs = ObsRest
    /\ amHeap = <<<<>>>>
    /\ amAccounts = 1
    /\ params = <<>>
    /\ amCalls = <<>>
    /\ amMutex = "unlocked"

\* NewOrganization at its loop over OrganizationUnits, for any forest of
\* OU specs, with a provider that has created nothing yet.
InitHierarchy ==
    /\ config = [MaxAttempts |-> 0, Delay |-> 1]
    /\ attempt = 1
    /\ lastErr = "nil"
    /\ opLog = <<>>
    /\ sleeps = <<>>
    /\ retryPc = "returned"
    /\ retryErr = NilError
    /\ cfg = "nil"
    /\ lzPc = "returned"
    /\ launched = 0
    /\ stagePc = [s \in StageSet |-> "notStarted"]
    /\ stageRes = [s \in StageSet |-> "nil"]
    /\ errChan = <<>>
    /\ wg = 0
    /\ roles = {}
    /\ lzErr = LzNil
    /\ organizationUnits \in UNION {Forests(n) : n \in 1..MaxNodes}
    /\ hPc = "loop"
    /\ topTodo = Children(organizationUnits, 0)
    /\ stack = <<>>
    /\ ret = NilRet
    /\ additionalOUs = <<>>
    /\ calls = <<>>
    /\ existing = {}
    /\ nextId = 1
    /\ ssm = {}
    /\ run = "first"
    /\ firstCalls = <<>>
    /\ now = 0
    /\ mutex = Unlocked
    /\ table = <<>>
    /\ gor = [g \in Goroutines |-> IdleFrame]
    /\ smCalls = <<>>
    /\ putLog = <<>>
    /\ cleanupLog = <<>>
    /\ bg = <<>>
    /\ collector = NewCollector
    /\ closeRes = <<>>
    /\ orch = OrchRest
    /\ deadline = "none"
    /\ obs = ObsRest
    /\ amHeap = <<<<>>>>
    /\ amAccounts = 1
    /\ params = <<>>
    /\ amCalls = <<>>
    /\ amMutex = "unlocked"

\* A StateManager just built by NewManager, an empty table and goroutines
\* that have not called it yet.
InitStore ==
    /\ config = [MaxAttempts |-> 0, Delay |-> 1]
    /\ attempt = 1
    /\ lastErr = "nil"
    /\ opLog = <<>>
    /\ sleeps = <<>>
    /\ retryPc = "returned"
    /\ retryErr = NilError
    /\ cfg = "nil"
    /\ lzPc = "returned"
    /\ launched = 0
    /\ stagePc = [s \in StageSet |-> "notStarted"]
    /\ stageRes = [s \in StageSet |-> "nil"]
    /\ errChan = <<>>
    /\ wg = 0
    /\ roles = {}
    /\ lzErr = LzNil
    /\ organizationUnits = [n |-> 0, parent |-> <<>>, name |-> <<>>]
    /\ hPc = "done"
    /\ topTodo = {}
    /\ stack = <<>>
    /\ ret = NilRet
    /\ additionalOUs = <<>>
    /\ calls = <<>>
    /\ existing = {}
    /\ nextId = 1
    /\ ssm = {}
    /\ run = "first"
    /\ firstCalls = <<>>
    /\ now = 0
    /\ mutex = Unlocked
    /\ table = <<>>
    /\ gor = [g \in Goroutines |-> IdleFrame]
    /\ smCalls = <<>>
    /\ putLog = <<>>
    /\ cleanupLog = <<>>
    /\ bg = <<>>
    /\ collector = NewCollector
    /\ closeRes = <<>>
    /\ orch = OrchRest
    /\ deadline = "none"
    /\ obs = ObsRest
    /\ amHeap = <<<<>>>>
    /\ amAccounts = 1
    /\ params = <<>>
    /\ amCalls = <<>>
    /\ amMutex = "unlocked"

\* The collector NewManager built for the StateManager; nothing recorded yet.
InitCollector ==
    /\ config = [MaxAttempts |-> 0, Delay |-> 1]
    /\ attempt = 1
    /\ lastErr = "nil"
    /\ opLog = <<>>
    /\ sleeps = <<>>
    /\ retryPc = "returned"
    /\ retryErr = NilError
    /\ cfg = "nil"
    /\ lzPc = "returned"
    /\ launched = 0
    /\ stagePc = [s \in StageSet |-> "notStarted"]
    /\ stageRes = [s \in StageSet |-> "nil"]
    /\ errChan = <<>>
    /\ wg = 0
    /\ roles = {}
    /\ lzErr = LzNil
    /\ organizationUnits = [n |-> 0, parent |-> <<>>, name |-> <<>>]
    /\ hPc = "done"
    /\ topTodo = {}
    /\ stack = <<>>
    /\ ret = NilRet
    /\ additionalOUs = <<>>
    /\ calls = <<>>
    /\ existing = {}
    /\ nextId = 1
    /\ ssm = {}
    /\ run = "first"
    /\ firstCalls = <<>>
    /\ now = 0
    /\ mutex = Unlocked
    /\ table = <<>>
    /\ gor = [g \in Goroutines |-> IdleFrame]
    /\ smCalls = <<>>
    /\ putLog = <<>>
    /\ cleanupLog = <<>>
    /\ bg = <<>>
    /\ collector = NewCollector
    /\ closeRes = <<>>
    /\ orch = OrchRest
    /\ deadline = "none"
    /\ obs = ObsRest
    /\ amHeap = <<<<>>>>
    /\ amAccounts = 1
    /\ params = <<>>
    /\ amCalls = <<>>
    /\ amMutex = "unlocked"

\* No function of the run has been entered yet.
InitOrchestrator ==
    /\ config = [MaxAttempts |-> 0, Delay |-> 1]
    /\ attempt = 1
    /\ lastErr = "nil"
    /\ opLog = <<>>
    /\ sleeps = <<>>
    /\ retryPc = "returned"
    /\ retryErr = NilError
    /\ cfg = "nil"
    /\ lzPc = "returned"
    /\ launched = 0
    /\ stagePc = [s \in StageSet |-> "notStarted"]
    /\ stageRes = [s \in StageSet |-> "nil"]
    /\ errChan = <<>>
    /\ wg = 0
    /\ roles = {}
    /\ lzErr = LzNil
    /\ organizationUnits = [n |-> 0, parent |-> <<>>, name |-> <<>>]
    /\ hPc = "done"
    /\ topTodo = {}
    /\ stack = <<>>
    /\ ret = NilRet
    /\ additionalOUs = <<>>
    /\ calls = <<>>
    /\ existing = {}
    /\ nextId = 1
    /\ ssm = {}
    /\ run = "first"
    /\ firstCalls = <<>>
    /\ now = 0
    /\ mutex = Unlocked
    /\ table = <<>>
    /\ gor = [g \in Goroutines |-> IdleFrame]
    /\ smCalls = <<>>
    /\ putLog = <<>>
    /\ cleanupLog = <<>>
    /\ bg = <<>>
    /\ collector = NewCollector
    /\ closeRes = <<>>
    /\ orch = OrchRest
    /\ deadline = "none"
    /\ obs = ObsRest
    /\ amHeap = <<<<>>>>
    /\ amAccounts = 1
    /\ params = <<>>
    /\ amCalls = <<>>
    /\ amMutex = "unlocked"

\* An AccountManager just built by NewAccountManager, and any contents of
\* the backup parameters of the Parameter Store.
InitAccounts ==
    /\ config = [MaxAttempts |-> 0, Delay |-> 1]
    /\ attempt = 1
    /\ lastErr = "nil"
    /\ opLog = <<>>
    /\ sleeps = <<>>
    /\ retryPc = "returned"
    /\ retryErr = NilError
    /\ cfg = "nil"
    /\ lzPc = "returned"
    /\ launched = 0
    /\ stagePc = [s \in StageSet |-> "notStarted"]
    /\ stageRes = [s \in StageSet |-> "nil"]
    /\ errChan = <<>>
    /\ wg = 0
    /\ roles = {}
    /\ lzErr = LzNil
    /\ organizationUnits = [n |-> 0, parent |-> <<>>, name |-> <<>>]
    /\ hPc = "done"
    /\ topTodo = {}
    /\ stack = <<>>
    /\ ret = NilRet
    /\ additionalOUs = <<>>
    /\ calls = <<>>
    /\ existing = {}
    /\ nextId = 1
    /\ ssm = {}
    /\ run = "first"
    /\ firstCalls = <<>>
    /\ now = 0
    /\ mutex = Unlocked
    /\ table = <<>>
    /\ gor = [g \in Goroutines |-> IdleFrame]
    /\ smCalls = <<>>
    /\ putLog = <<>>
    /\ cleanupLog = <<>>
    /\ bg = <<>>
    /\ collector = NewCollector
    /\ closeRes = <<>>
    /\ orch = OrchRest
    /\ deadline = "none"
    /\ obs = ObsRest
    /\ amHeap = <<<<>>>>
    /\ amAccounts = 1
    /\ \E ids \in SUBSET BackupIds : params \in [ids -> Documents]
    /\ amCalls = <<>>
    /\ amMutex = "unlocked"

SpecRetry == InitRetry /\ [][RetryNext]_vars

SpecStages == InitStages /\ [][StageNext]_vars

SpecHierarchy == InitHierarchy /\ [][HierNext]_vars

SpecStore == InitStore /\ [][StoreNext]_vars

SpecCollector == InitCollector /\ [][CollNext]_vars

SpecOrchestrator == InitOrchestrator /\ [][OrchNext]_vars

SpecAccounts == InitAccounts /\ [][AcctNext]_vars

(***************************************************************************)
(* Claims about RetryWithBackoff (checked under SpecRetry).                *)
(***************************************************************************)

NilCalls == {k \in 1..Len(opLog) : opLog[k] = "nil"}

\* C1: when the first success of the operation is on call k <= MaxAttempts,
\* RetryWithBackoff returns nil and the operation has been invoked exactly k
\* times: a successful call is always the last call, it ends the loop at
\* once with a nil result, and a run that ends in an error saw no success.
C1_SuccessStopsRetry ==
    config.MaxAttempts >= 1 =>
        /\ \A k \in NilCalls :
               /\ k = Len(opLog)
               /\ k <= config.MaxAttempts
               /\ retryPc = "returned"
               /\ retryErr = NilError
        /\ (retryPc = "returned" /\ NilCalls = {}) => ~retryErr.isNil
        /\ retryPc = "loop" => Len(opLog) = attempt - 1

\* C1 witness: MaxAttempts = N >= 2, N-1 failures and then a success on
\* call N, reported as nil.
C1_Witness ==
    /\ config.MaxAttempts >= 2
    /\ retryPc = "returned"
    /\ Len(opLog) = config.MaxAttempts
    /\ opLog[Len(opLog)] = "nil"
    /\ retryErr.isNil

\* C2: when every call of the operation fails, RetryWithBackoff returns a
\* non-nil error after exactly MaxAttempts calls; the error names
\* MaxAttempts and wraps the error of the last call.
C2_ExhaustedAfterN ==
    (config.MaxAttempts >= 1 /\ retryPc = "returned" /\ NilCalls = {}) =>
        /\ Len(opLog) = config.MaxAttempts
        /\ ~retryErr.isNil
        /\ retryErr.attempts = config.MaxAttempts
        /\ retryErr.wraps = opLog[config.MaxAttempts]

\* C2 witness: N >= 2 failing calls whose first and last errors differ, so
\* that "the last error" is told apart from any other.
C2_Witness ==
    /\ config.MaxAttempts >= 2
    /\ retryPc = "returned"
    /\ NilCalls = {}
    /\ Len(opLog) = config.MaxAttempts
    /\ opLog[1] # opLog[Len(opLog)]
    /\ ~retryErr.isNil

(***************************************************************************)
(* Claims about the concurrent SetupLandingZone (checked under SpecStages).*)
(***************************************************************************)

FailedStages == {s \in StageSet : stagePc[s] \in {"returned", "sent", "done"}
                                  /\ stageRes[s] # "nil"}

\* C3: the concurrent SetupLandingZone starts every stage and returns only
\* after every started stage has finished: past wg.Wait every stage is
\* done whatever the results of the others were, and at no time has the
\* call returned while a stage goroutine is still under way.
C3_WaitsForAllStages ==
    /\ lzPc \in {"collect", "returned"} =>
           \A s \in StageSet : stagePc[s] \in {"notStarted", "done"}
    /\ (lzPc \in {"collect", "returned"} /\ launched > 0) =>
           \A s \in StageSet : stagePc[s] = "done"
    /\ (lzPc = "returned" /\ lzErr.msg \in {"", "landing zone setup failed"}) =>
           \A s \in StageSet : stagePc[s] = "done"

\* C3 witness: the call has returned, one stage failed and every stage,
\* also one launched after the failure, ran to completion.
C3_Witness ==
    /\ lzPc = "returned"
    /\ stageRes["setupRoles"] # "nil"
    /\ stageRes["setupGuardrails"] = "nil"
    /\ \A s \in StageSet : stagePc[s] = "done"

\* The stages whose error the returned error carries.
NamedStages == IF lzErr.wraps = "nil" THEN {} ELSE {lzErr.wraps}

RECURSIVE Ancestors(_, _)
Ancestors(sp, j) ==
    IF sp.parent[j] = 0 THEN {} ELSE {sp.parent[j]} \cup Ancestors(sp, sp.parent[j])

\* The nodes of the spec tree rooted at node i.
Subtree(sp, i) == {j \in 1..sp.n : j = i \/ i \in Ancestors(sp, j)}

DistinctNames(sp, S) ==
    \A i \in S : \A j \in S : i # j => sp.name[i] # sp.name[j]

CallNodes == [k \in 1..Len(calls) |-> calls[k].node]

\* C5: a build of a spec tree with pairwise distinct names in which every
\* createOU succeeds returns a registry with exactly one entry per node of
\* the tree, and every OU was created under the root or under an OU created
\* earlier in the same run; a build returns an error only when a createOU
\* failed.
C5_RegistryOnePerNode ==
    /\ (~ret.ousNil /\ DistinctNames(organizationUnits, Subtree(organizationUnits, ret.node))) =>
           /\ Cardinality(DOMAIN ret.ous)
                  = Cardinality(Subtree(organizationUnits, ret.node))
           /\ DOMAIN ret.ous = {organizationUnits.name[j] :
                                    j \in Subtree(organizationUnits, ret.node)}
    /\ \A k \in 1..Len(calls) :
           calls[k].out # "ouErr" =>
               \/ calls[k].parentId = RootId
               \/ \E j \in 1..(k - 1) : /\ calls[j].out # "ouErr"
                                        /\ calls[j].id = calls[k].parentId
    /\ ret.err # "nil" =>
           \/ organizationUnits.name[ret.node] = ""
           \/ \E j \in Subtree(organizationUnits, ret.node) :
                  organizationUnits.name[j] = ""
           \/ (calls # <<>> /\ calls[Len(calls)].out # "ok")

\* C5 witness: a tree of three distinctly named nodes has been built and
\* its registry returned to NewOrganization.
C5_Witness ==
    /\ ~ret.ousNil
    /\ stack = <<>>
    /\ Cardinality(Subtree(organizationUnits, ret.node)) = 3
    /\ DistinctNames(organizationUnits, Subtree(organizationUnits, ret.node))
    /\ Cardinality(DOMAIN ret.ous) = 3

\* C6: two builds of the same spec against the same provider issue their
\* create-OU calls in the same order.
C6_SameCallOrder ==
    (run = "second" /\ hPc = "done") => CallNodes = firstCalls

WorkloadsSpec ==
    [n |-> 3, parent |-> <<0, 1, 1>>,
     name |-> <<"Workloads", "Development", "Production">>]

\* C7: the spec {Workloads: {Development, Production}} built under r-0 with
\* a provider that never fails and assigns ou-1, ou-2, ou-3 to successive
\* calls gives the registry {Workloads: ou-1, Development: ou-2,
\* Production: ou-3}, Workloads under r-0 and the other two under ou-1.
C7_WorkloadsRegistry ==
    (organizationUnits = WorkloadsSpec /\ hPc = "done") =>
        /\ additionalOUs = ("Workloads" :> 1 @@ "Development" :> 2
                                @@ "Production" :> 3)
        /\ \A k \in 1..Len(calls) :
               calls[k].parentId = IF calls[k].name = "Workloads" THEN RootId ELSE 1

\* C8: the create-OU call of a node is issued only after the createOU of
\* its parent has returned successfully, with the id assigned to the
\* parent (the root id for a top-level node); every ancestor of a node was
\* created before the node.
C8_ParentBeforeChild ==
    \A k \in 1..Len(calls) :
        LET c == calls[k]
            p == organizationUnits.parent[c.node]
        IN  /\ IF p = 0
               THEN c.parentId = RootId
               ELSE \E j \in 1..(k - 1) : /\ calls[j].node = p
                                          /\ calls[j].out = "ok"
                                          /\ calls[j].id = c.parentId
            /\ \A a \in Ancestors(organizationUnits, c.node) :
                   \E j \in 1..(k - 1) : calls[j].node = a /\ calls[j].out = "ok"

\* C8 witness: a grandchild has been created under the id of its parent.
C8_Witness ==
    \E k \in 1..Len(calls) :
        /\ Cardinality(Ancestors(organizationUnits, calls[k].node)) = 2
        /\ calls[k].out = "ok"
        /\ calls[k].parentId \notin {RootId, 1}

Aborting == hPc \in {"abort", "failed"}

\* C9: once the creation of a node has failed the build issues no further
\* create-OU call, every level of the recursion returns an error and no
\* registry, NewOrganization fails, and the OUs created so far stay at the
\* provider (nothing is deleted).
C9_FailureAbortsBuild ==
    /\ [](/\ (calls # <<>> /\ calls[Len(calls)].out # "ok") => Aborting
          /\ ret.err # "nil" => (ret.ousNil /\ Aborting)
          /\ Aborting => ret.err # "nil")
    /\ [][Aborting =>
            /\ calls' = calls
            /\ existing' = existing
            /\ additionalOUs' = additionalOUs
            /\ Aborting'
            /\ Len(stack') <= Len(stack)
            /\ ret'.err = ret.err /\ ret'.ousNil]_vars

\* C9 witness: NewOrganization has failed after a child could not be
\* created; a node of the spec was never asked for and the OU created
\* before the failure still exists.
C9_Witness ==
    /\ hPc = "failed"
    /\ organizationUnits.n = 3
    /\ Len(calls) = 2
    /\ organizationUnits.parent[calls[2].node] # 0
    /\ calls[2].out = "ouErr"
    /\ existing = {1}

\* C10: after a successful build every OU that was created is found in the
\* returned registry, also when spec nodes share a name.
C10_NoEntryDropped ==
    hPc = "done" =>
        \A k \in 1..Len(calls) :
            \E nm \in DOMAIN additionalOUs : additionalOUs[nm] = calls[k].id

(***************************************************************************)
(* Claims about the StateManager (checked under SpecStore).                *)
(***************************************************************************)

SaveCalls == {c \in 1..Len(smCalls) : smCalls[c].op = "Save"}
LoadCalls == {c \in 1..Len(smCalls) : smCalls[c].op = "Load"}
Finished(c) == smCalls[c].res.kind # "pending"

\* The answers PutItem gave to the writes of call c, in order.
WritesOf(c) ==
    LET ofCall(e) == e.call = c
        puts == SelectSeq(putLog, ofCall)
    IN  [k \in 1..Len(puts) |-> puts[k].res]

\* The goroutines the go statement of call c started.
BackupsOf(c) == {i \in 1..Len(bg) : bg[i].call = c}

\* C11: Save makes at most MaxRetries writes; a successful write is the
\* last one and Save returns nil with it; when MaxRetries writes have
\* failed Save returns the StateError of operation "Save" that wraps the
\* error of the last write; the error of marshalState is another one and
\* comes without any write.
C11_SaveRetries ==
    \A c \in SaveCalls :
        LET W == WritesOf(c)
            res == smCalls[c].res
        IN  /\ Len(W) <= MaxRetries
            /\ \A k \in 1..Len(W) :
                   W[k] = "nil" => (k = Len(W) /\ res = SmNil)
            /\ res.kind = "nil" => (W # <<>> /\ W[Len(W)] = "nil")
            /\ res.kind = "pending" =>
                   (Len(W) < MaxRetries /\ \A k \in 1..Len(W) : W[k] # "nil")
            /\ (Len(W) = MaxRetries /\ W[MaxRetries] # "nil") =>
                   res = StateError("Save",
                             "max retries exceeded while saving to DynamoDB",
                             W[MaxRetries])
            /\ res.Operation = "Save" =>
                   (Len(W) = MaxRetries /\ \A k \in 1..Len(W) : W[k] # "nil")
            /\ res.Operation = "marshalState" => W = <<>>

\* C11 witness: a Save whose MaxRetries writes failed with different
\* errors has returned.
C11_Witness ==
    \E c \in SaveCalls :
        /\ smCalls[c].res.Operation = "Save"
        /\ WritesOf(c)[1] # WritesOf(c)[MaxRetries]

SavedBefore(c) ==
    {k \in 1..Len(putLog) : putLog[k].call < c /\ putLog[k].res = "nil"}
LastSaved(c) ==
    putLog[CHOOSE k \in SavedBefore(c) : \A j \in SavedBefore(c) : j <= k].item

\* C13: a Load that follows a successful Save and does not run out of
\* retries returns the snapshot of the last Save: the same state content
\* and the same version.
C13_RoundTrip ==
    \A c \in LoadCalls :
        (Finished(c) /\ SavedBefore(c) # {} /\ smCalls[c].res.Operation # "Load") =>
            /\ smCalls[c].res = SmNil
            /\ ~smCalls[c].data.isNil
            /\ smCalls[c].data.State = LastSaved(c).state.State
            /\ smCalls[c].data.Version = LastSaved(c).version

\* C14: a Load that has ended has returned a snapshot with a nil error or
\* a typed StateError and no snapshot; it has not ended any other way.
C14_LoadSnapshotOrError ==
    \A c \in LoadCalls :
        Finished(c) =>
            \/ (smCalls[c].res = SmNil /\ ~smCalls[c].data.isNil)
            \/ (smCalls[c].res.kind = "StateError" /\ smCalls[c].data.isNil)

\* C15: a CreateBackup call is never left waiting for the mutex of its own
\* StateManager while it holds that mutex itself, a wait that no other
\* goroutine can end.
C15_CreateBackupReturns ==
    \A g \in Goroutines :
        (gor[g].op = "CreateBackup" /\ gor[g].pc = "rlock") => mutex.writer # g

\* Goroutine g is between the Lock and the Unlock of a Save, CreateBackup
\* or CleanupOldStates, or between the RLock and the RUnlock of a Load.
InWriter(g) ==
    /\ gor[g].op \in {"Save", "CreateBackup", "CleanupOldStates"}
    /\ gor[g].pc \notin {"idle", "panicked"}
InReader(g) == gor[g].op = "Load" /\ gor[g].pc = "read"

\* C16: no two goroutines are inside a Save, CreateBackup or
\* CleanupOldStates at once, and none is inside a Load while another is
\* inside one of those.
C16_OperationsExclude ==
    \A g1 \in Goroutines : \A g2 \in Goroutines \ {g1} :
        InWriter(g1) => (~InWriter(g2) /\ ~InReader(g2))

\* C16 witness: a goroutine sleeps between two writes of Save, holding the
\* mutex, while the other goroutine has calls left to make that all need
\* the mutex.
C16_Witness ==
    \E g1 \in Goroutines : \E g2 \in Goroutines \ {g1} :
        /\ InWriter(g1)
        /\ gor[g1].attempt >= 1
        /\ gor[g2].pc = "idle"
        /\ Len(smCalls) < MaxCalls

\* C17: the writes of Save that succeeded all went to different sort keys.
C17_AppendOnly ==
    \A i \in 1..Len(putLog) : \A j \in 1..Len(putLog) :
        (i # j /\ putLog[i].res = "nil" /\ putLog[j].res = "nil") =>
            putLog[i].item.sk # putLog[j].item.sk

\* C18: once cleanupDynamoDB has reported success no item older than the
\* expiry date is left in the table, and an item that no cleanup found
\* older than its expiry date is still stored.
C18_CleanupHorizon ==
    /\ \A g \in Goroutines :
           gor[g].pc = "cleanupS3" =>
               \A sk \in DOMAIN table :
                   table[sk].state.Timestamp >= gor[g].expiryDate
    /\ \A k \in 1..Len(putLog) :
           (/\ putLog[k].res = "nil"
            /\ \A e \in 1..Len(cleanupLog) :
                   putLog[k].item.state.Timestamp >= cleanupLog[e].expiryDate)
           => putLog[k].item.sk \in DOMAIN table

\* C19: the expiry date handed to the cleanup of the blob store is the
\* time of the call less BackupRetentionDays.
C19_BackupRetentionCutoff ==
    \A e \in 1..Len(cleanupLog) :
        cleanupLog[e].store = "s3" =>
            cleanupLog[e].expiryDate
                = AddDate(cleanupLog[e].timeNow, -BackupRetentionDays)

C21_CloseIdempotent ==
    [][(Len(closeRes') = Len(closeRes) + 1 /\ Len(closeRes) >= 1)
          => /\ closeRes'[Len(closeRes')] = closeRes[1]
             /\ collector' = collector
             /\ storeVars' = storeVars]_vars

\* Close has been called twice on a collector that holds metrics.
C21_Witness ==
    /\ Len(closeRes) >= 2
    /\ collector.counters # {}
    /\ collector.histograms # {}

(***************************************************************************)
(* Claims about the provisioning run (checked under SpecOrchestrator).     *)
(***************************************************************************)

\* The innermost error of a chain of wrapped errors.
Cause(err) == IF err = NoErr THEN "nil" ELSE err[Len(err)]
\* The messages of the configuration checks.
ValidationMsgs ==
    {"landing zone configuration is required",
     "at least one governed region is required", "invalid setting",
     "invalid organization configuration: config cannot be nil",
     "landing zone configuration cannot be nil",
     "at least one governed region must be specified",
     "account name must be between 3 and 50 characters",
     "invalid email format", "parent OU ID is required"}
PhaseSet == {Phases[i] : i \in 1..Len(Phases)}
\* The phases before p.
Earlier(p) ==
    {Phases[i] : i \in 1..((CHOOSE k \in 1..Len(Phases) : Phases[k] = p) - 1)}
\* The step starts phase p.
Starts(p) == obs'.phase[p] = "started" /\ obs.phase[p] # "started"
\* The run of main has returned.
MainReturned == orch.entry = "main" /\ orch.pc = "returned"
\* The provider calls are issued at these positions.
AttemptPcs == {"call", "createOrganization"}

\* C22: in a run of main a phase starts only when every phase before it
\* has succeeded, no phase starts once a phase has failed for good, and
\* the save has started only if every phase before it succeeded.
C22_PhaseOrder ==
    [][/\ \A p \in PhaseSet :
            Starts(p) => \A q \in Earlier(p) : obs'.phase[q] = "ok"
       /\ obs.failure.phase # "none" => \A p \in PhaseSet : ~Starts(p)
       /\ obs'.phase["save"] # "idle"
            => \A q \in Earlier("save") : obs'.phase[q] = "ok"]_vars

\* A run of main in which an attempt of createOU was retried has saved
\* the state.
C22_Witness ==
    /\ MainReturned
    /\ obs.phase["save"] = "ok"
    /\ \E i \in obs.issued : i.call = "createOU" /\ ~i.token

\* C23: when the landing-zone setup or the save fails after the
\* organization was created, Organization.Cleanup has been called when the
\* run returns; it has not been called when every phase succeeded.
C23_CleanupOnLateFailure ==
    MainReturned =>
        /\ obs.failure.phase \in {"landingZone", "save"} => obs.cleanups >= 1
        /\ obs.failure.phase = "none" => obs.cleanups = 0

C25_TokenPerAttempt == \A i \in obs.issued : i.token

\* C26: no retry loop goes to sleep before a next attempt after the wait on
\* the rate limiter failed.
C26_WaitFailureStopsLoop ==
    ~(orch.pc = "sleep" /\ Cause(Top.lastErr) = "context canceled")

\* C27: once the deadline of the run has expired no attempt of a provider
\* call is started.
C27_DeadlineStopsAttempts ==
    [][deadline = "expired"
          => ~(orch'.pc \in AttemptPcs /\ orch.pc \notin AttemptPcs)]_vars

C29_OneSharedBucket == Cardinality(obs.admitted) <= 1

(***************************************************************************)
(* Claims about the AccountManager (checked under SpecAccounts).           *)
(***************************************************************************)

\* The step is a call of Restore that returns nil.
RestoreSucceeds ==
    /\ Len(amCalls') = Len(amCalls) + 1
    /\ amCalls'[Len(amCalls')].op = "Restore"
    /\ amCalls'[Len(amCalls')].err = "nil"

\* C30: a Restore that succeeds leaves am.accounts referring to a map that
\* did not exist before and holds exactly the entries of the backup; every
\* map that existed before and every stored backup is as it was.
C30_RestoreNeverAliases ==
    [][RestoreSucceeds
          => /\ amAccounts' \notin DOMAIN amHeap
             /\ amHeap'[amAccounts'] =
                   params[amCalls'[Len(amCalls')].id].accounts
             /\ \A m \in DOMAIN amHeap : amHeap'[m] = amHeap[m]
             /\ params' = params]_vars

\* A Restore has replaced a registry by one with other entries.
C30_Witness ==
    /\ Len(amHeap) >= 3
    /\ amCalls[Len(amCalls)].op = "Restore"
    /\ amCalls[Len(amCalls)].err = "nil"
    /\ amHeap[amAccounts] # <<>>
    /\ amHeap[amAccounts] # amHeap[Len(amHeap) - 1]

(***************************************************************************)
(* Further claims about RetryWithBackoff (checked under SpecRetry).        *)
(***************************************************************************)

\* The calls of the operation that failed before the last permitted attempt.
EarlyFailures ==
    {k \in 1..Len(opLog) : opLog[k] # "nil" /\ k < config.MaxAttempts}

Min(a, b) == IF a <= b THEN a ELSE b

C33_SideRecordBeforeChildren ==
    /\ \A k \in 1..Len(calls) :
           calls[k].parentId # RootId =>
               \E j \in 1..(k - 1) :
                   /\ calls[j].id = calls[k].parentId
                   /\ calls[j].out = "ok"
                   /\ calls[j].name \in ssm
    /\ \A k \in 1..Len(calls) :
           calls[k].out = "ssmErr" =>
               /\ k = Len(calls)
               /\ calls[k].id \in existing
               /\ hPc \in {"abort", "failed"}
               /\ ret.err = "error creating SSM parameter for OU"
               /\ ret.ousNil

\* C33 witness: a child was created under an OU whose side-record was
\* written, the write of the child's own side-record failed, and
\* NewOrganization returned the error.
C33_Witness ==
    /\ hPc = "failed"
    /\ Len(calls) >= 2
    /\ calls[Len(calls)].parentId # RootId
    /\ calls[Len(calls)].out = "ssmErr"
    /\ calls[Len(calls)].id \in existing
    /\ topTodo # {}

(***************************************************************************)
(* Further claims about the concurrent SetupLandingZone (checked under     *)
(* SpecStages).                                                            *)
(***************************************************************************)

\* The stages whose goroutine has sent its result.
SentStages == {s \in StageSet : stagePc[s] \in {"sent", "done"}}

\* C34: no stage goroutine blocks on its send: a stage whose function has
\* returned finds room in errChan, because until the channel is drained it
\* holds one value per stage that has sent and never more than its
\* capacity, which is the number of stages launched.  The counter of the
\* WaitGroup is the number of stages that are not done, so wg.Wait returns
\* once every stage is done, and no goroutine is under way after the
\* return of SetupLandingZone.
C34_NoStageBlocksOnSend ==
    /\ \A s \in StageSet : stagePc[s] = "returned" => Len(errChan) < errChanCap
    /\ lzPc \in {"launch", "wait", "collect"} =>
           /\ Len(errChan) = Cardinality(SentStages)
           /\ wg = wgAdd - Cardinality({s \in StageSet : stagePc[s] = "done"})
    /\ errChanCap = Len(Stages)
    /\ lzPc = "returned" =>
           \A s \in StageSet : stagePc[s] \in {"notStarted", "done"}

\* C34 witness: three stages have sent, the buffer holds three values, and
\* the function of the fourth has returned: its send finds the last place.
C34_Witness ==
    /\ lzPc = "wait"
    /\ Len(errChan) = errChanCap - 1
    /\ \E s \in StageSet : stagePc[s] = "returned"

(***************************************************************************)
(* Further claims about the provisioning run (checked under                *)
(* SpecOrchestrator).                                                      *)
(***************************************************************************)

\* The attempt the loop of setupLandingZoneWithRetry is in, 0 outside it.
LandingZoneAttempt ==
    IF orch.loops # <<>> /\ orch.loops[1].site = "setupLandingZoneWithRetry"
    THEN orch.loops[1].attempt
    ELSE 0

\* C35: every attempt of setupLandingZoneWithRetry that reaches the stages
\* invokes every stage function, also the ones that returned nil in an
\* earlier attempt: the stage functions have all been invoked equally
\* often, once for the first attempt and at most once more for each retry.
\* In one run a stage function is invoked at most 3 times and the provider
\* call that creates the role is made at most 9 times.
C35_RetryReexecutesStages ==
    /\ \A s, t \in StageSet : obs.count[s] = obs.count[t]
    /\ \A s \in StageSet : obs.count[s] <= mainMaxAttempts
    /\ obs.count["createRoleWithRetry"] <= mainMaxAttempts * MaxRetryAttempts
    /\ obs.count["createRoleWithRetry"] <=
           MaxRetryAttempts * obs.count["setupRoles"]
    /\ LandingZoneAttempt > 0 =>
           \A s \in StageSet : obs.count[s] <= LandingZoneAttempt
    /\ (LandingZoneAttempt > 0 /\ Len(orch.loops) = 2) =>
           \A s \in StageSet : obs.count[s] >= 1

\* C35 witness: a run of main in which the creation of the role failed
\* eight times and succeeded at the ninth call: the stage functions that
\* returned nil in the first two attempts were invoked in the third again.
C35_Witness ==
    /\ orch.entry = "main"
    /\ orch.pc = "returned"
    /\ obs.phase["landingZone"] = "ok"
    /\ obs.count["createRoleWithRetry"] = 9
    /\ obs.count["setupKMS"] = 3
    /\ obs.count["setupGuardrails"] = 3

\* C36: once the organization has been created (the steps after its
\* creation have begun), no failure of such a step makes the run issue the
\* provider's create-organization call again.
C36_OrganizationCreatedOnce ==
    [][obs'.count["createOrganization"] # obs.count["createOrganization"] =>
           obs.phase["hierarchy"] = "idle"]_vars

(***************************************************************************)
(* Further claims about the StateManager (checked under SpecStore).        *)
(***************************************************************************)

\* The goroutines of Save whose backupToS3 is under way.
RunningBackups == {i \in 1..Len(bg) : bg[i].pc = "running"}

\* C37: the backup write a Save started is covered by the lock of that
\* Save, so it never runs while another operation accesses the blob store:
\* no call of cleanupS3 (nor the backup write of CreateBackup) is made while
\* the backup write of a Save is under way.
C37_BackupNotConcurrent ==
    [][(/\ Len(cleanupLog') > Len(cleanupLog)
        /\ cleanupLog'[Len(cleanupLog')].store = "s3")
           => RunningBackups = {}]_vars

\* C38 (checked under SpecOrchestrator): after a run whose Save returned
\* nil, the process does not end while the backup write that Save started
\* is pending: when main has returned, the goroutine of that write has run
\* to its end.
C38_BackupDoneBeforeExit ==
    (obs.exited /\ obs.phase["save"] = "ok") => obs.backup = "done"

\* The functions of o.cleanup that return an error.
FailedHooks == {i \in 1..Len(orch.hooks) : orch.hooks[i] # NoErr}

\* C39 (checked under SpecOrchestrator): Organization.Cleanup calls every
\* function of o.cleanup once, in the order of the slice, whether or not an
\* earlier one failed; it returns nil when none failed and otherwise the
\* error of the last function that failed.
C39_CleanupRunsEveryHook ==
    orch.entry = "Cleanup" =>
        /\ Len(obs.invoked) <= Len(orch.hooks)
        /\ \A k \in 1..Len(obs.invoked) : obs.invoked[k] = k
        /\ orch.pc = "returned" =>
               /\ Len(obs.invoked) = Len(orch.hooks)
               /\ FailedHooks = {} => obs.result = NoErr
               /\ FailedHooks # {} =>
                      obs.result =
                          orch.hooks[CHOOSE i \in FailedHooks :
                                         \A j \in FailedHooks : j <= i]
               /\ obs.result = Cleanup(orch.hooks)

\* C39 witness: three functions, the first two failed with different
\* errors and the third returned nil: all three were called and the error
\* of the second was returned.
C39_Witness ==
    /\ orch.entry = "Cleanup"
    /\ orch.pc = "returned"
    /\ Len(orch.hooks) = 3
    /\ FailedHooks = {1, 2}
    /\ orch.hooks[1] # orch.hooks[2]
    /\ obs.invoked = <<1, 2, 3>>
    /\ obs.result = orch.hooks[2]

(***************************************************************************)
(* Further claims about the AccountManager (checked under SpecAccounts).   *)
(***************************************************************************)

\* A step in which a call of Restore returns an error.
RestoreFails ==
    /\ Len(amCalls') = Len(amCalls) + 1
    /\ amCalls'[Len(amCalls')].op = "Restore"
    /\ amCalls'[Len(amCalls')].err # "nil"

\* C40: a Restore that returns an error (no Pulumi context, backup not
\* found, backup data that cannot be decoded, accounts map nil) leaves
\* am.accounts referring to the map it referred to, with the entries it
\* had, and has released the lock it took.
C40_FailedRestoreChangesNothing ==
    [][RestoreFails
          => /\ amMutex = "writer"
             /\ amMutex' = "unlocked"
             /\ amAccounts' = amAccounts
             /\ amHeap' = amHeap
             /\ amCalls'[Len(amCalls')].err \in
                    {"pulumi context not found in context",
                     "failed to retrieve backup",
                     "failed to unmarshal backup data",
                     "invalid backup data: accounts map is nil"}]_vars

\* C40 witness: a registry with entries, restored by an earlier call, is
\* still in place after a Restore that failed on a backup whose accounts
\* map is nil, and the lock is free.
C40_Witness ==
    /\ Len(amCalls) = 2
    /\ amCalls[1].op = "Restore"
    /\ amCalls[1].err = "nil"
    /\ amCalls[2].op = "Restore"
    /\ amCalls[2].err = "invalid backup data: accounts map is nil"
    /\ amHeap[amAccounts] # <<>>
    /\ amMutex = "unlocked"

====
